---- MODULE Spec2Model ----
(***************************************************************************)
(* A model of sfurman3/chatroom: the logical and vector clock library,     *)
(* the causal-delivery MessageReceptacle (package vector) and the chatroom *)
(* server runtime (package main).                                          *)
(*                                                                         *)
(* Specification Spec is the monitor scenario of the vector package: n     *)
(* processes tick their vector clocks and send timestamped messages, and a *)
(* monitor passes copies of them (and forged or replayed ones) to a        *)
(* MessageReceptacle and calls Deliverables.  SpecCopies is the same       *)
(* scenario with the monitor holding several objects of one message and    *)
(* calling Deliverables again and again.                                   *)
(*                                                                         *)
(* Specifications SpecChat and SpecAlive are a system of two chatroom      *)
(* servers while real time passes: in SpecChat the controllers command     *)
(* broadcasts and the servers send, receive and heartbeat; in SpecAlive    *)
(* the servers heartbeat and answer the controllers' "alive" commands.     *)
(* SpecMaster adds the controller's dialogue (connect, "get", "alive",     *)
(* "broadcast", unrecognised commands, disconnect), SpecBroadcast is one   *)
(* execution of broadcast for any number of peers and any failing dials,   *)
(* and SpecMessenger the receive path of src/server/server.go, which       *)
(* starts a goroutine for every connection.  SpecThreads interleaves the   *)
(* goroutines of one server statement by statement, with the two mutexes.  *)
(*                                                                         *)
(* SpecClock, SpecLogical, SpecCodec and SpecEvents apply the operations   *)
(* of the clock library to clocks drawn from bounded sets.                 *)
(***************************************************************************)
EXTENDS Integers, Sequences, FiniteSets, TLC

VARIABLES
    clk,        \* clk[p]: the vector.Clock of process p (1..NumProcs)
    wire,       \* the set of Messages sent so far, as marshalled (json)
    heap,       \* heap[ptr]: the *Message objects the monitor allocated
    received,   \* rcp.received: map[*Message]*Clock
    counter,    \* rcp.counter: []logical.Clock
    delivered,  \* concatenation of the slices Deliverables returned so far
    ret,        \* what the last Receive / Deliverables call returned
    \* package main (the server), one entry per peer where it applies
    now,            \* the real time, in milliseconds since the peers started
    MessagesFIFO,   \* MessagesFIFO.value of each peer
    LastTimestamp,  \* LastTimestamp.value of each peer
    inbox,          \* connections established to a peer's listener, not yet accepted
    master,         \* where the peer's handleMaster loop is: idle or in broadcast
    beats,          \* the heartbeat broadcasts (goroutines) of a peer in progress
    nextBeat,       \* when the peer's heartbeat loop wakes from its Sleep
    resp,           \* the last response written to a controller
    broadcasts,     \* history: the non-empty messages each peer broadcast, in order
    lost,           \* history: the sends whose Dial failed
    \* package vector: one Clock under its operations
    vc,         \* the clock
    vret,       \* what the last operation on it returned
    \* package logical: two Clocks under their operations
    lg,         \* lg[i]: the counter of clock i (set FALSE: counter == nil)
    lret,       \* what the last operation returned
    \* the Timestamp codec
    cd,         \* a clock, a base, its Timestamp and the clock decoded from it
    \* processes following the tick convention, with their true causal past
    eclk,       \* eclk[p]: the vector.Clock of process p
    events,     \* history: the events so far, each with its timestamp and past
    known,      \* history: known[p]: the events in the causal past of process p
    \* package main, seen closer
    bc,         \* one execution of broadcast, statement by statement
    mconn,      \* mconn[p]: the controller connection of peer p: whether
                \* one is open, how many were accepted, when the last was,
                \* and the errors logged in its dialogue
    handlers,   \* handlers[p]: the receive handlers of peer p in progress
    accepted,   \* history: accepted[p]: the messages of the connections
                \* peer p accepted, in accept order
    th,         \* the goroutines of one peer, statement by statement
    mu          \* the goroutine holding MessagesFIFO.mutex (F) and the one
                \* holding LastTimestamp.mutex (T) of that peer

rcpVars == <<clk, wire, heap, received, counter, delivered, ret>>

srvVars == <<now, MessagesFIFO, LastTimestamp, inbox, master, beats, nextBeat,
             resp, broadcasts, lost>>

clockVars == <<vc, vret>>

logicalVars == <<lg, lret>>

codecVars == <<cd>>

eventVars == <<eclk, events, known>>

bcVars == <<bc>>

dlgVars == <<mconn>>

msgrVars == <<handlers, accepted>>

thVars == <<th, mu>>

mainVars == <<bcVars, dlgVars, msgrVars, thVars>>

libVars == <<clockVars, logicalVars, codecVars, eventVars, mainVars>>

vars == <<rcpVars, srvVars, libVars>>

----------------------------------------------------------------------------
(* Bounds and program constants *)

\* number of send events the processes perform in a run
MaxSends == 2
\* number of Message objects the monitor allocates in a run
MaxObjs == 2
\* the system of the package's receptacle test: two processes and a monitor
NumProcs == 2
\* logical.MaxBase = big.MaxBase
MaxBase == 62

Procs == 1..NumProcs

----------------------------------------------------------------------------
(* package logical: a Clock is an arbitrary-precision natural; a nil       *)
(* counter reads as zero, so the value is modelled by the number itself.   *)

\* the digit characters of big.Int text in bases up to 62
Alphabet ==
    << "0", "1", "2", "3", "4", "5", "6", "7", "8", "9",
       "a", "b", "c", "d", "e", "f", "g", "h", "i", "j", "k", "l", "m",
       "n", "o", "p", "q", "r", "s", "t", "u", "v", "w", "x", "y", "z",
       "A", "B", "C", "D", "E", "F", "G", "H", "I", "J", "K", "L", "M",
       "N", "O", "P", "Q", "R", "S", "T", "U", "V", "W", "X", "Y", "Z" >>

Tick(c) == c + 1

Cmp(c, other) == IF c < other THEN -1 ELSE IF c > other THEN 1 ELSE 0

\* adds the offset, compares, subtracts the offset again
CmpOffset(c, offset, other) == Cmp(c + offset, other)

\* a Set that leaves the clock as it was
SetKeeps(c, other) == c

Set(c, other) == other

\* a Max that takes the other value whatever the comparison says
MaxTakesOther(c, other) == other

Max(c, other) == IF Cmp(c, other) < 0 THEN other ELSE c

RECURSIVE Text(_, _)
\* big.Int.Text: most significant digit first, "0" for zero
Text(c, base) ==
    IF c < base THEN << Alphabet[c + 1] >>
    ELSE Append(Text(c \div base, base), Alphabet[(c % base) + 1])

\* the position of each digit character in Alphabet
DigitIndex ==
    [ch \in {Alphabet[i] : i \in 1..Len(Alphabet)} |->
        CHOOSE i \in 1..Len(Alphabet) : Alphabet[i] = ch]

\* digit values that take a capital letter for its small letter in every
\* base
DigitValFolded(ch, base) ==
    IF ch \in DOMAIN DigitIndex
    THEN LET i == DigitIndex[ch]
         IN  IF i <= 36 THEN i - 1 ELSE i - 27
    ELSE MaxBase + 1

\* the value of one digit character in the given base (MaxBase + 1: no digit)
DigitVal(ch, base) ==
    IF ch \in DOMAIN DigitIndex
    THEN LET i == DigitIndex[ch]
         IN  IF i <= 36 THEN i - 1
             ELSE IF base <= 36 THEN i - 27 ELSE i - 1
    ELSE MaxBase + 1

RECURSIVE DigitsValue(_, _)
\* the number a sequence of valid digits denotes
DigitsValue(s, base) ==
    IF s = << >> THEN 0
    ELSE DigitsValue(SubSeq(s, 1, Len(s) - 1), base) * base
            + DigitVal(s[Len(s)], base)

\* big.Int.SetString: optional sign, then at least one digit, nothing else
ParseInt(s, base) ==
    LET signed == Len(s) > 0 /\ s[1] \in {"+", "-"}
        body   == IF signed THEN SubSeq(s, 2, Len(s)) ELSE s
        ok     == /\ Len(body) > 0
                  /\ \A i \in 1..Len(body) : DigitVal(body[i], base) < base
        abs    == IF ok THEN DigitsValue(body, base) ELSE 0
    IN  [succ |-> ok,
         val  |-> IF signed /\ s[1] = "-" THEN 0 - abs ELSE abs]

\* a SetString without the comparison with zero: it takes negative values
SetStringSigned(c, value, base) ==
    LET p == ParseInt(value, base)
    IN  IF p.succ
        THEN [clk |-> p.val, succ |-> TRUE]
        ELSE [clk |-> c, succ |-> FALSE]

\* logical.Clock.SetString: the clock after the call and the success flag
SetString(c, value, base) ==
    LET p == ParseInt(value, base)
    IN  IF p.succ /\ Cmp(p.val, 0) # -1
        THEN [clk |-> p.val, succ |-> TRUE]
        ELSE [clk |-> c, succ |-> FALSE]

----------------------------------------------------------------------------
(* package vector: Clock, Timestamp, Message *)

\* clockBuilder.Build: a zeroed clock (callers pass 1 <= id <= length)
Build(id, length) == [id |-> id, vector |-> [i \in 1..length |-> 0]]

Length(c) == Len(c.vector)

\* Clock.Timestamp: the wire form, components as text in the given base
Timestamp(c, base) ==
    [Id |-> c.id, Vector |-> [i \in 1..Len(c.vector) |-> Text(c.vector[i], base)]]

\* Timestamp.ClockBase: the decoded clock and the error ("nil": none)
ClockBase(ts, base) ==
    IF ~(1 <= ts.Id /\ ts.Id <= Len(ts.Vector))
    THEN [clk |-> [id |-> 0, vector |-> << >>], err |-> "id"]
    ELSE LET n      == Len(ts.Vector)
             parsed == [i \in 1..n |-> SetString(0, ts.Vector[i], base)]
             bad    == {i \in 1..n : ~parsed[i].succ}
             first  == IF bad = {} THEN n + 1
                       ELSE CHOOSE i \in bad : \A j \in bad : i <= j
         IN  [clk |-> [id |-> ts.Id,
                       vector |-> [i \in 1..n |->
                                     IF i < first THEN parsed[i].clk ELSE 0]],
              err |-> IF bad = {} THEN "nil" ELSE "parse"]

NewMessage(msg, c) == [Content |-> msg, Timestamp |-> Timestamp(c, MaxBase)]

ErrComparableTo(c, other) ==
    IF Length(c) = 0 THEN "uninitialized"
    ELSE IF Length(other) # Length(c) THEN "lengths"
    ELSE "nil"

\* a consistency test that looks at the component of c's process only
PairwiseInconsistentOneSided(c, other) ==
    Cmp(c.vector[c.id], other.vector[c.id]) < 0

PairwiseInconsistent(c, other) ==
    \/ Cmp(c.vector[c.id], other.vector[c.id]) < 0
    \/ Cmp(other.vector[other.id], c.vector[other.id]) < 0

TickLocal(c) ==
    IF Length(c) = 0 THEN c
    ELSE [c EXCEPT !.vector[c.id] = Tick(c.vector[c.id])]

\* a TickReceive that adopts the components of the other clock, and does
\* not test the two clocks for pairwise consistency
TickReceiveAdopts(c, other) ==
    IF ErrComparableTo(c, other) # "nil"
    THEN [clk |-> c, err |-> ErrComparableTo(c, other)]
    ELSE [clk |-> [c EXCEPT !.vector = other.vector], err |-> "nil"]

\* Clock.TickReceive: the clock after the call and the error
TickReceive(c, other) ==
    IF ErrComparableTo(c, other) # "nil"
    THEN [clk |-> c, err |-> ErrComparableTo(c, other)]
    ELSE IF PairwiseInconsistent(c, other)
    THEN [clk |-> c, err |-> "inconsistent"]
    ELSE [clk |-> [c EXCEPT !.vector =
                      [i \in 1..Len(c.vector) |->
                         IF i # c.id THEN Max(c.vector[i], other.vector[i])
                         ELSE c.vector[i]]],
          err |-> "nil"]

----------------------------------------------------------------------------
(* package vector: MessageReceptacle.  A receptacle value is the record    *)
(* [counter, received]; received maps message pointers to decoded clocks.  *)

NewMessageReceptacle(n) ==
    [counter |-> [i \in 1..n |-> 0], received |-> << >>]

\* m[k] = v added to a Go map
MapPut(m, k, v) ==
    [x \in (DOMAIN m) \cup {k} |-> IF x = k THEN v ELSE m[x]]

\* delete(m, k)
MapDelete(m, k) == [x \in (DOMAIN m) \ {k} |-> m[x]]

\* a Receive without the isPresent check: a pending object is stored again
ReceiveNoPresenceCheck(rcp, ptr, msg) ==
    IF Len(rcp.counter) # Len(msg.Timestamp.Vector)
    THEN [rcp |-> rcp, err |-> "length"]
    ELSE LET ts == ClockBase(msg.Timestamp, MaxBase)
         IN  IF ts.err # "nil" THEN [rcp |-> rcp, err |-> ts.err]
             ELSE [rcp |-> [rcp EXCEPT !.received = MapPut(@, ptr, ts.clk)],
                   err |-> "nil"]

\* MessageReceptacle.Receive of the object ptr holding msg: the receptacle
\* after the call and the error
Receive(rcp, ptr, msg) ==
    IF Len(rcp.counter) # Len(msg.Timestamp.Vector)
    THEN [rcp |-> rcp, err |-> "length"]
    ELSE LET ts == ClockBase(msg.Timestamp, MaxBase)
         IN  IF ts.err # "nil" THEN [rcp |-> rcp, err |-> ts.err]
             ELSE IF ptr \in DOMAIN rcp.received
             THEN [rcp |-> rcp, err |-> "duplicate"]
             ELSE [rcp |-> [rcp EXCEPT !.received = MapPut(@, ptr, ts.clk)],
                   err |-> "nil"]

Size(rcp) == Cardinality(DOMAIN rcp.received)

\* The state of one Deliverables call: the receptacle, the delivery slice
\* gathered so far, and the error and offender to return (0: nil)
CallState(rcp) ==
    [counter |-> rcp.counter, received |-> rcp.received,
     delivery |-> << >>, err |-> "nil", offender |-> 0]

\* a deliver that tests the sender's component alone, not the components
\* of the other processes
deliverNoGapCheck(st, msg) ==
    LET ts == st.received[msg]
        id == ts.id
    IN  IF CmpOffset(st.counter[id], 1, ts.vector[id]) = 0
        THEN [st EXCEPT !.counter[id] = Set(@, ts.vector[id]),
                        !.delivery = Append(@, msg),
                        !.received = MapDelete(@, msg)]
        ELSE st

\* a deliver that releases a message whose sender component is anywhere
\* above the counter
deliverAnyLater(st, msg) ==
    LET ts == st.received[msg]
        id == ts.id
        hasGap(oId) == oId # id /\ Cmp(st.counter[oId], ts.vector[oId]) < 0
    IN  IF /\ Cmp(st.counter[id], ts.vector[id]) < 0
           /\ \A oId \in 1..Len(st.counter) : ~hasGap(oId)
        THEN [st EXCEPT !.counter[id] = Set(@, ts.vector[id]),
                        !.delivery = Append(@, msg),
                        !.received = MapDelete(@, msg)]
        ELSE st

\* a deliver that leaves the released message among the pending ones
deliverKeepsPending(st, msg) ==
    LET ts == st.received[msg]
        id == ts.id
        hasGap(oId) == oId # id /\ Cmp(st.counter[oId], ts.vector[oId]) < 0
    IN  IF /\ CmpOffset(st.counter[id], 1, ts.vector[id]) = 0
           /\ \A oId \in 1..Len(st.counter) : ~hasGap(oId)
        THEN [st EXCEPT !.counter[id] = Set(@, ts.vector[id]),
                        !.delivery = Append(@, msg)]
        ELSE st

\* a deliver that also releases a message whose sender component is the
\* counter's, not only the next one
deliverRepeats(st, msg) ==
    LET ts == st.received[msg]
        id == ts.id
        hasGap(oId) == oId # id /\ Cmp(st.counter[oId], ts.vector[oId]) < 0
    IN  IF /\ CmpOffset(st.counter[id], 1, ts.vector[id]) \in {0, 1}
           /\ ts.vector[id] >= st.counter[id]
           /\ \A oId \in 1..Len(st.counter) : ~hasGap(oId)
        THEN [st EXCEPT !.counter[id] = Set(@, ts.vector[id]),
                        !.delivery = Append(@, msg),
                        !.received = MapDelete(@, msg)]
        ELSE st

\* MessageReceptacle.deliver for the pending message msg
deliver(st, msg) ==
    LET ts == st.received[msg]
        id == ts.id
        noUndeliveredFromProcess ==
            CmpOffset(st.counter[id], 1, ts.vector[id]) = 0
        hasGap(oId) == oId # id /\ Cmp(st.counter[oId], ts.vector[oId]) < 0
        noPriorFromOtherProcesses ==
            \A oId \in 1..Len(st.counter) : ~hasGap(oId)
    IN  IF noUndeliveredFromProcess /\ noPriorFromOtherProcesses
        THEN IF Cmp(st.counter[id], ts.vector[id]) > 0
             THEN [st EXCEPT !.received = MapDelete(@, msg),
                             !.err = "inconsistent",
                             !.offender = msg]
             ELSE [st EXCEPT !.counter[id] = Set(@, ts.vector[id]),
                             !.delivery = Append(@, msg),
                             !.received = MapDelete(@, msg)]
        ELSE st

RECURSIVE DeliverablesLoop(_, _, _)
\* the range loop of Deliverables over the pending messages in the order
\* the map iteration yields them, returning at the first error
DeliverablesLoop(st, order, i) ==
    IF i > Len(order) THEN st
    ELSE LET next == deliver(st, order[i])
         IN  IF next.err # "nil" THEN next
             ELSE DeliverablesLoop(next, order, i + 1)

\* the orders in which a range over a Go map may yield the keys S
IterationOrders(S) ==
    {o \in [1..Cardinality(S) -> S] : \A i, j \in DOMAIN o : i # j => o[i] # o[j]}

\* MessageReceptacle.Deliverables under one iteration order
DeliverablesResult(rcp, order) == DeliverablesLoop(CallState(rcp), order, 1)

----------------------------------------------------------------------------
(* The monitor scenario (the package's receptacle test, generalised): the  *)
(* processes follow the convention of ticking the local component on       *)
(* events notified to the monitor and merging on receives.                 *)

\* component strings a forged timestamp may carry: a negative zero, a
\* negative literal, the empty string, and a non-digit
ForgedStrings ==
    { << "-", "0" >>, << "-", "1" >>, << >>, << "$" >> }

\* v with the component at position i replaced by the text s
WithComponent(v, i, s) == [j \in 1..Len(v) |-> IF j = i THEN s ELSE v[j]]

\* timestamps as a caller can build them: the vector of negative zeros
\* for process 1, a vector of ones with one component that is no natural
\* number, an id below and above 1..n, and vectors one shorter and one
\* longer than the receptacle
ForgedTimestamps ==
    LET ones(l) == [j \in 1..l |-> << "1" >>]
    IN  { [Id |-> 1, Vector |-> [j \in 1..NumProcs |-> << "-", "0" >>]] }
        \cup { [Id |-> 1, Vector |-> WithComponent(ones(NumProcs), i, s)] :
                 i \in 1..NumProcs, s \in ForgedStrings \ {<< "-", "0" >>} }
        \cup { [Id |-> i, Vector |-> ones(NumProcs)] : i \in {0, NumProcs + 1} }
        \cup { [Id |-> 1, Vector |-> ones(l)] :
                 l \in {NumProcs - 1, NumProcs + 1} }

NoCall == [op |-> "none", err |-> "nil", msg |-> 0,
           delivery |-> << >>, offender |-> 0]

Rcp == [counter |-> counter, received |-> received]

InitMonitor ==
    /\ clk = [p \in Procs |-> Build(p, NumProcs)]
    /\ wire = {}
    /\ heap = << >>
    /\ received = NewMessageReceptacle(NumProcs).received
    /\ counter = NewMessageReceptacle(NumProcs).counter
    /\ delivered = << >>
    /\ ret = NoCall

\* a send (or reported local) event of process p: tick, then NewMessage
SendEvent(p) ==
    /\ Cardinality(wire) < MaxSends
    /\ LET c == TickLocal(clk[p])
       IN  /\ clk' = [clk EXCEPT ![p] = c]
           /\ wire' = wire \cup {NewMessage("m", c)}
    /\ UNCHANGED <<heap, received, counter, delivered, ret, srvVars, libVars>>

\* process p receives message m of another process: decode its timestamp
\* and TickReceive; the error results are ignored as in the test
ProcReceive(p, m) ==
    /\ m \in wire
    /\ m.Timestamp.Id # p
    /\ LET other == ClockBase(m.Timestamp, MaxBase).clk
       IN  clk' = [clk EXCEPT ![p] = TickReceive(clk[p], other).clk]
    /\ UNCHANGED <<wire, heap, received, counter, delivered, ret, srvVars, libVars>>

\* rcp.Receive(ptr) where ptr points at msg; an object the receptacle
\* accepted is kept on the heap
ReceiveCall(ptr, msg) ==
    LET r == Receive(Rcp, ptr, msg)
    IN  /\ received' = r.rcp.received
        /\ counter' = r.rcp.counter
        /\ heap' = IF r.err = "nil" /\ ptr = Len(heap) + 1
                   THEN Append(heap, msg) ELSE heap
        /\ ret' = [op |-> "Receive", err |-> r.err,
                   msg |-> IF ptr <= Len(heap') THEN ptr ELSE 0,
                   delivery |-> << >>, offender |-> 0]
        /\ UNCHANGED <<clk, wire, delivered, srvVars, libVars>>

\* the monitor unmarshals message m, which arrives once, into a new object
\* and receives it
MonitorReceive(m) ==
    /\ m \in wire
    /\ Len(heap) < MaxObjs
    /\ \A k \in 1..Len(heap) : heap[k] # m
    /\ ReceiveCall(Len(heap) + 1, m)

\* the monitor passes an object it already passed once
ReceiveAgain(ptr) ==
    /\ ptr \in 1..Len(heap)
    /\ ReceiveCall(ptr, heap[ptr])

\* the monitor receives a new object whose timestamp no process produced
ReceiveForged(ts) ==
    /\ Len(heap) < MaxObjs
    /\ ReceiveCall(Len(heap) + 1, [Content |-> "m", Timestamp |-> ts])

\* one call of rcp.Deliverables(), the map iterated in any order
DeliverablesCall ==
    \E order \in IterationOrders(DOMAIN received) :
        LET r == DeliverablesResult(Rcp, order)
        IN  /\ counter' = r.counter
            /\ received' = r.received
            /\ delivered' = delivered \o r.delivery
            /\ ret' = [op |-> "Deliverables", err |-> r.err, msg |-> 0,
                       delivery |-> r.delivery, offender |-> r.offender]
            /\ UNCHANGED <<clk, wire, heap, srvVars, libVars>>

\* number of message objects the monitor allocates when it unmarshals a
\* message more than once
MaxCopies == 3

\* the monitor unmarshals message m into a new object and receives it,
\* whether or not it unmarshalled m before
MonitorReceiveCopy(m) ==
    /\ m \in wire
    /\ Len(heap) < MaxCopies
    /\ ReceiveCall(Len(heap) + 1, m)

\* the monitor scenario with messages unmarshalled any number of times;
\* the processes send without receiving from each other
NextCopies ==
    \/ \E p \in Procs : SendEvent(p)
    \/ \E m \in wire : MonitorReceiveCopy(m)
    \/ \E ptr \in 1..MaxCopies : ReceiveAgain(ptr)
    \/ DeliverablesCall

NextMonitor ==
    \/ \E p \in Procs : SendEvent(p)
    \/ \E p \in Procs, m \in wire : ProcReceive(p, m)
    \/ \E m \in wire : MonitorReceive(m)
    \/ \E ptr \in 1..MaxObjs : ReceiveAgain(ptr)
    \/ \E ts \in ForgedTimestamps : ReceiveForged(ts)
    \/ DeliverablesCall

----------------------------------------------------------------------------
(* package main: the chatroom server.  Peers have ids 0..NUM_PROCS-1 and   *)
(* run on one host, so they share the real-time clock.                     *)

\* number of servers in the system (the command line's n): two servers
NUM_PROCS == 2
\* time.Duration constants, in milliseconds
HEARTBEAT_INTERVAL == 200
ALIVE_INTERVAL == 250
\* the run is observed for this long, in steps of this many milliseconds
MaxTime == 500
TimeStep == 100
\* number of broadcast commands the controllers issue in a run
MaxBroadcasts == 2
\* number of sends whose Dial fails in a run
MaxLost == 1

Peers == 0..(NUM_PROCS - 1)

\* the texts of the broadcast commands of a run, in the order issued
Texts == << "A", "B", "C", "D" >>

\* the zero time.Time of a fresh LastTimestamp entry: long before the start
ZeroTime == -1000000

emptyMessage(ID, t) == [Id |-> ID, Rts |-> t, Content |-> ""]

newMessage(ID, msg, t) == [Id |-> ID, Rts |-> t, Content |-> msg]

NoMessage == emptyMessage(0, ZeroTime)

\* json.Marshal of a Message, and json.Unmarshal into a new Message
Marshal(msg) == [id |-> msg.Id, rts |-> msg.Rts, msg |-> msg.Content]

Unmarshal(bytes) == [Id |-> bytes.id, Rts |-> bytes.rts, Content |-> bytes.msg]

\* a self copy put at the head of the log
SelfCopyPrepends(log, msg) ==
    IF msg.Content # "" THEN << msg >> \o log ELSE log

\* a broadcast without the self copy
SelfCopySkips(log, msg) == log

\* the head of broadcast: the self copy of a non-empty message
SelfCopy(log, msg) == IF msg.Content # "" THEN Append(log, msg) ELSE log

\* the id the loop of broadcast dials when its variable is id: the
\* statement "if id == ID { id++ }"
DialTarget(ID, id) == IF id = ID THEN id + 1 ELSE id

\* connections served in any order, as by one goroutine per connection
AcceptAny(queue) == 1..Len(queue)

\* the connections ln.Accept may return next: the oldest one established
AcceptOrder(queue) == {1}

\* a handleMessage that records the time of messages with content only
UpdateLastTimestampIfContent(stmps, msg) ==
    IF msg.Content = "" THEN stmps ELSE [stmps EXCEPT ![msg.Id] = msg.Rts]

\* handleMessage: LastTimestamp.value[msg.Id] = msg.Rts
UpdateLastTimestamp(stmps, msg) == [stmps EXCEPT ![msg.Id] = msg.Rts]

\* a handleMessage that logs whatever it receives
LogAlways(log, msg) == Append(log, msg)

\* the tail of handleMessage: log a message that is not a heartbeat
LogReceived(log, msg) == IF msg.Content = "" THEN log ELSE Append(log, msg)

\* a first loop of "alive" that allows two heartbeat intervals
AliveBelowTwoBeats(ID, id, t, stmps) == t - stmps[id] < 2 * HEARTBEAT_INTERVAL

\* now.Sub(stmp) < window for the ids the two loops of "alive" go through
AliveBelow(ID, id, t, stmps) == t - stmps[id] < ALIVE_INTERVAL

AliveAbove(ID, id, t, stmps) == t - stmps[id] < HEARTBEAT_INTERVAL

\* the ids of the "alive" response of peer ID at time t, in writing order
AliveIds(ID, t, stmps) ==
    LET below(i) == i - 1 < ID /\ AliveBelow(ID, i - 1, t, stmps)
        above(i) == i - 1 > ID /\ AliveAbove(ID, i - 1, t, stmps)
        listed(i) == below(i) \/ i - 1 = ID \/ above(i)
        all == [i \in 1..NUM_PROCS |-> i]
        sel == SelectSeq(all, listed)
    IN  [k \in 1..Len(sel) |-> sel[k] - 1]

Idle == [pc |-> "read", msg |-> NoMessage, id |-> 0]

NoResponse == [cmd |-> "none", peer |-> 0, ids |-> << >>]

RECURSIVE Issued(_)
\* the number of broadcast commands issued so far to the peers 0..p
Issued(p) == IF p < 0 THEN 0 ELSE Len(broadcasts[p]) + Issued(p - 1)

InitServer ==
    /\ now = 0
    /\ MessagesFIFO = [p \in Peers |-> << >>]
    /\ LastTimestamp = [p \in Peers |-> [j \in Peers |-> ZeroTime]]
    /\ inbox = [p \in Peers |-> << >>]
    /\ master = [p \in Peers |-> Idle]
    /\ beats = [p \in Peers |-> {}]
    /\ nextBeat = [p \in Peers |-> HEARTBEAT_INTERVAL]
    /\ resp = NoResponse
    /\ broadcasts = [p \in Peers |-> << >>]
    /\ lost = {}

\* real time passes; a heartbeat loop whose Sleep is over fires first
TimePasses ==
    /\ now < MaxTime
    /\ \A p \in Peers : now < nextBeat[p]
    /\ now' = now + TimeStep
    /\ UNCHANGED <<MessagesFIFO, LastTimestamp, inbox, master, beats,
                   nextBeat, resp, broadcasts, lost, rcpVars, libVars>>

\* no send or receive is in progress at any peer
Settled ==
    \A p \in Peers :
        inbox[p] = << >> /\ beats[p] = {} /\ master[p].pc = "read"

\* real time passes while the peers are settled: every send and receive
\* takes less than one time step
SettledTimePasses == Settled /\ TimePasses

\* heartbeat: the Sleep ends and "go broadcast(emptyMessage())" starts a
\* broadcast whose head appends nothing for an empty message
Heartbeat(p) ==
    /\ now >= nextBeat[p]
    /\ LET msg == emptyMessage(p, now)
       IN  /\ beats' = [beats EXCEPT ![p] = @ \cup {[msg |-> msg, id |-> 0]}]
           /\ MessagesFIFO' =
                [MessagesFIFO EXCEPT ![p] = SelfCopy(@, msg)]
    /\ nextBeat' = [nextBeat EXCEPT ![p] = now + HEARTBEAT_INTERVAL]
    /\ UNCHANGED <<now, LastTimestamp, inbox, master, resp, broadcasts,
                   lost, rcpVars, libVars>>

\* one iteration of the loop of broadcast by peer p with loop variable id:
\* the Dial succeeds (ok) and the line is written, or it fails
Send(p, msg, id, ok) ==
    LET to == DialTarget(p, id)
    IN  /\ ok => to \in Peers
        /\ inbox' = IF ok THEN [inbox EXCEPT ![to] = Append(@, Marshal(msg))]
                    ELSE inbox
        /\ (~ok /\ to \in Peers) => Cardinality(lost) < MaxLost
        /\ lost' = IF ~ok /\ to \in Peers
                   THEN lost \cup {[from |-> p, to |-> to, msg |-> msg]}
                   ELSE lost

\* the loop of a heartbeat broadcast b of peer p advances by one iteration
BeatSend(p, b, ok) ==
    /\ b \in beats[p]
    /\ Send(p, b.msg, b.id, ok)
    /\ LET id == DialTarget(p, b.id) + 1
       IN  beats' = [beats EXCEPT ![p] =
                       (@ \ {b}) \cup (IF id < NUM_PROCS
                                       THEN {[b EXCEPT !.id = id]} ELSE {})]
    /\ UNCHANGED <<now, MessagesFIFO, LastTimestamp, master, nextBeat, resp,
                   broadcasts, rcpVars, libVars>>

\* handleMaster reads "broadcast <text>": newMessage and the head of broadcast
BroadcastCmd(p, text) ==
    /\ master[p].pc = "read"
    /\ Issued(NUM_PROCS - 1) < MaxBroadcasts
    /\ text = Texts[Issued(NUM_PROCS - 1) + 1]
    /\ LET msg == newMessage(p, text, now)
       IN  /\ MessagesFIFO' = [MessagesFIFO EXCEPT ![p] = SelfCopy(@, msg)]
           /\ master' = [master EXCEPT ![p] =
                           [pc |-> "broadcast", msg |-> msg, id |-> 0]]
           /\ broadcasts' = [broadcasts EXCEPT ![p] = Append(@, msg)]
    /\ UNCHANGED <<now, LastTimestamp, inbox, beats, nextBeat, resp, lost,
                   rcpVars, libVars>>

\* the loop of the controller's broadcast advances by one iteration
MasterSend(p, ok) ==
    /\ master[p].pc = "broadcast"
    /\ Send(p, master[p].msg, master[p].id, ok)
    /\ LET id == DialTarget(p, master[p].id) + 1
       IN  master' = [master EXCEPT ![p] =
                        IF id < NUM_PROCS THEN [@ EXCEPT !.id = id] ELSE Idle]
    /\ UNCHANGED <<now, MessagesFIFO, LastTimestamp, beats, nextBeat, resp,
                   broadcasts, rcpVars, libVars>>

\* fetchMessages accepts a connection and handleMessage serves it
HandleMessage(p) ==
    /\ inbox[p] # << >>
    /\ \E i \in AcceptOrder(inbox[p]) :
         LET msg == Unmarshal(inbox[p][i])
         IN  /\ inbox' = [inbox EXCEPT ![p] =
                            [k \in 1..(Len(@) - 1) |->
                               IF k < i THEN @[k] ELSE @[k + 1]]]
             /\ LastTimestamp' =
                  [LastTimestamp EXCEPT ![p] = UpdateLastTimestamp(@, msg)]
             /\ MessagesFIFO' = [MessagesFIFO EXCEPT ![p] = LogReceived(@, msg)]
    /\ UNCHANGED <<now, master, beats, nextBeat, resp, broadcasts, lost,
                   rcpVars, libVars>>

\* handleMaster reads "alive" and writes the response
AliveCmd(p) ==
    /\ master[p].pc = "read"
    /\ resp' = [cmd |-> "alive", peer |-> p,
                ids |-> AliveIds(p, now, LastTimestamp[p])]
    /\ UNCHANGED <<now, MessagesFIFO, LastTimestamp, inbox, master, beats,
                   nextBeat, broadcasts, lost, rcpVars, libVars>>

----------------------------------------------------------------------------
(* package vector: one Clock under its operations, the other clock of a    *)
(* call and the JSON to unmarshal being any the caller can pass.           *)

\* the longest vector and the largest component of the clocks considered
MaxLen == 2
MaxTick == 2

\* the zero value of Clock: uninitialised, length 0
NoClock == [id |-> 0, vector |-> << >>]

\* the clocks of length up to maxLen with components up to maxTick
Clocks(maxLen, maxTick) ==
    {NoClock} \cup
    UNION { { [id |-> i, vector |-> v] : i \in 1..l, v \in [1..l -> 0..maxTick] } :
            l \in 1..maxLen }

\* Clock.UnmarshalJSON of the JSON of timestamp ts: the clock after the call
\* (left as far as it was written when a component fails) and the error
UnmarshalJSON(c, ts) ==
    IF ~(1 <= ts.Id /\ ts.Id <= Len(ts.Vector))
    THEN [clk |-> c, err |-> "id"]
    ELSE LET n      == Len(ts.Vector)
             parsed == [i \in 1..n |-> SetString(0, ts.Vector[i], MaxBase)]
             bad    == {i \in 1..n : ~parsed[i].succ}
             first  == IF bad = {} THEN n + 1
                       ELSE CHOOSE i \in bad : \A j \in bad : i <= j
         IN  [clk |-> [id |-> ts.Id,
                       vector |-> [i \in 1..n |->
                                     IF i < first THEN parsed[i].clk ELSE 0]],
              err |-> IF bad = {} THEN "nil" ELSE "parse"]

\* Clock.Equal
Equal(c, other) ==
    IF Length(c) = 0 /\ Length(c) = Length(other) THEN TRUE
    ELSE IF Length(c) # Length(other) THEN FALSE
    ELSE \A i \in 1..Length(c) : Cmp(c.vector[i], c.vector[i]) = 0

\* Clock.LessThan
LessThan(c, other) ==
    IF ErrComparableTo(c, other) # "nil" THEN FALSE
    ELSE IF c.id = other.id
    THEN Cmp(c.vector[c.id], other.vector[c.id]) < 0
    ELSE IF PairwiseInconsistent(c, other) THEN FALSE
    ELSE Cmp(c.vector[c.id], other.vector[c.id]) <= 0

\* a Concurrent whose first comparison is not strict
ConcurrentNotStrict(c, other) ==
    IF c.id = other.id THEN FALSE
    ELSE IF ErrComparableTo(c, other) # "nil" THEN FALSE
    ELSE IF PairwiseInconsistent(c, other) THEN FALSE
    ELSE /\ Cmp(c.vector[c.id], other.vector[c.id]) >= 0
         /\ Cmp(other.vector[other.id], c.vector[other.id]) > 0

\* Clock.Concurrent
Concurrent(c, other) ==
    IF c.id = other.id THEN FALSE
    ELSE IF ErrComparableTo(c, other) # "nil" THEN FALSE
    ELSE IF PairwiseInconsistent(c, other) THEN FALSE
    ELSE /\ Cmp(c.vector[c.id], other.vector[c.id]) > 0
         /\ Cmp(other.vector[other.id], c.vector[other.id]) > 0

\* the clocks a caller holds, and the timestamps whose JSON it can pass:
\* those of such clocks, and malformed ones
OtherClocks == Clocks(MaxLen, MaxTick)

JSONTimestamps ==
    {Timestamp(c, MaxBase) : c \in OtherClocks} \cup ForgedTimestamps

NoVret == [op |-> "none", err |-> "nil", lt |-> FALSE, conc |-> FALSE,
           eq |-> FALSE, ts |-> Timestamp(NoClock, MaxBase)]

Returned(op, err) == [NoVret EXCEPT !.op = op, !.err = err]

notClockVars ==
    <<rcpVars, srvVars, logicalVars, codecVars, eventVars, mainVars>>

VcTickLocal ==
    /\ Length(vc) > 0 => vc.vector[vc.id] < MaxTick
    /\ vc' = TickLocal(vc)
    /\ vret' = Returned("TickLocal", "nil")
    /\ UNCHANGED notClockVars

VcTickReceive(other) ==
    LET r == TickReceive(vc, other)
    IN  /\ vc' = r.clk
        /\ vret' = Returned("TickReceive", r.err)
        /\ UNCHANGED notClockVars

VcUnmarshalJSON(ts) ==
    LET r == UnmarshalJSON(vc, ts)
    IN  /\ vc' = r.clk
        /\ vret' = Returned("UnmarshalJSON", r.err)
        /\ UNCHANGED notClockVars

VcTimestamp ==
    /\ vret' = [Returned("Timestamp", "nil") EXCEPT
                  !.ts = Timestamp(vc, MaxBase)]
    /\ UNCHANGED <<vc, notClockVars>>

\* LessThan, Concurrent and Equal called with one other clock
VcCompare(other) ==
    /\ vret' = [Returned("Compare", "nil") EXCEPT
                  !.lt = LessThan(vc, other),
                  !.conc = Concurrent(vc, other),
                  !.eq = Equal(vc, other)]
    /\ UNCHANGED <<vc, notClockVars>>

NextClock ==
    \/ VcTickLocal
    \/ \E other \in OtherClocks : VcTickReceive(other)
    \/ \E ts \in JSONTimestamps : VcUnmarshalJSON(ts)
    \/ VcTimestamp
    \/ \E other \in OtherClocks : VcCompare(other)

----------------------------------------------------------------------------
(* Processes that follow the tick convention of package vector: TickLocal  *)
(* at every local or send event, whose timestamp is the clock after the    *)
(* tick, and TickReceive with the timestamp of a message when it is        *)
(* received.  The causal past of every event is recorded beside it.        *)

\* the processes of the package's examples
NumEvProcs == 3
\* number of events in a run
MaxEvents == 4

EvProcs == 1..NumEvProcs

notEventVars ==
    <<rcpVars, srvVars, clockVars, logicalVars, codecVars, mainVars>>

\* a local or send event of process p
LocalEvent(p) ==
    /\ Len(events) < MaxEvents
    /\ LET c == TickLocal(eclk[p])
           e == Len(events) + 1
       IN  /\ eclk' = [eclk EXCEPT ![p] = c]
           /\ events' = Append(events,
                               [proc |-> p, stamp |-> c, past |-> known[p]])
           /\ known' = [known EXCEPT ![p] = @ \cup {e}]
    /\ UNCHANGED notEventVars

\* process p receives the message another process sent at event e
ReceiveEvent(p, e) ==
    /\ e \in 1..Len(events)
    /\ events[e].proc # p
    /\ eclk' = [eclk EXCEPT ![p] = TickReceive(@, events[e].stamp).clk]
    /\ known' = [known EXCEPT ![p] = @ \cup events[e].past \cup {e}]
    /\ UNCHANGED <<events, notEventVars>>

NextEvents ==
    \/ \E p \in EvProcs : LocalEvent(p)
    \/ \E p \in EvProcs, e \in 1..MaxEvents : ReceiveEvent(p, e)

----------------------------------------------------------------------------
(* package logical used on its own: two clocks, each operation called on   *)
(* one of them with the other as its argument.                             *)

\* the largest value a clock is ticked to
MaxCounter == 3
\* the largest offset, in absolute value, passed to CmpOffset
MaxOffset == 2

LgClocks == 1..2

\* the zero value of logical.Clock: counter == nil, which reads as zero
NilCounter == [set |-> FALSE, v |-> 0]

\* if clk.counter == nil { clk.counter = new(big.Int) }
Alloc(c) == [set |-> TRUE, v |-> c.v]

\* a counter holding v
Counter(v) == [set |-> TRUE, v |-> v]

\* a CmpOffset that does not take the offset off again
AfterCmpOffsetShifted(c, offset) == c + offset

\* the counter after CmpOffset: the offset added, and its negation added
AfterCmpOffset(c, offset) ==
    LET shifted == c + offset
    IN  shifted + (0 - offset)

\* a TickReceive without its Tick
LogicalTickReceiveNoTick(c, other) == Max(c, other)

\* logical.Clock.TickReceive: clk.Max(other).Tick()
LogicalTickReceive(c, other) == Tick(Max(c, other))

\* logical.Clock.TickReceive, the variant that switches on clk.Cmp(other)
LogicalTickReceiveSwitch(c, other) ==
    IF Cmp(c, other) \in {0, 1} THEN Tick(c) ELSE other + 1

\* literals that denote a natural number in every base
NaturalLiterals ==
    { << "0" >>, << "1" >>, << "1", "0" >>, << "+", "1" >>, << "-", "0" >> }
\* literals that denote a negative integer in every base
NegativeLiterals == { << "-", "1" >>, << "-", "1", "0" >> }
\* literals that denote no integer in any base
MalformedLiterals ==
    { << >>, << "-" >>, << "$" >>, << "1", "$" >>, << "-", "-", "1" >>,
      << "1", "-" >> }
Literals == NaturalLiterals \cup NegativeLiterals \cup MalformedLiterals

\* the bases literals are read in
LiteralBases == {2, 10, MaxBase}

NoLret ==
    [op |-> "none", self |-> 1, other |-> 1, before |-> NilCounter,
     otherBefore |-> NilCounter, value |-> << >>, succ |-> TRUE, cmp |-> 0,
     offset |-> 0]

\* what a call on clock i with argument clock j found
Called(op, i, j) ==
    [NoLret EXCEPT !.op = op, !.self = i, !.other = j, !.before = lg[i],
                   !.otherBefore = lg[j]]

notLogicalVars ==
    <<rcpVars, srvVars, clockVars, codecVars, eventVars, mainVars>>

LgTick(i) ==
    /\ lg[i].v < MaxCounter
    /\ lg' = [lg EXCEPT ![i] = Counter(Tick(Alloc(lg[i]).v))]
    /\ lret' = Called("Tick", i, i)
    /\ UNCHANGED notLogicalVars

LgSet(i, j) ==
    /\ lg' = [lg EXCEPT ![i] = Counter(Set(Alloc(lg[i]).v, Alloc(lg[j]).v)),
                        ![j] = Alloc(lg[j])]
    /\ lret' = Called("Set", i, j)
    /\ UNCHANGED notLogicalVars

LgMax(i, j) ==
    /\ lg' = [lg EXCEPT ![i] = Counter(Max(Alloc(lg[i]).v, Alloc(lg[j]).v)),
                        ![j] = Alloc(lg[j])]
    /\ lret' = Called("Max", i, j)
    /\ UNCHANGED notLogicalVars

LgTickReceive(i, j) ==
    /\ lg[i].v < MaxCounter /\ lg[j].v < MaxCounter
    /\ lg' = [lg EXCEPT
                ![i] = Counter(LogicalTickReceive(Alloc(lg[i]).v,
                                                  Alloc(lg[j]).v)),
                ![j] = Alloc(lg[j])]
    /\ lret' = Called("TickReceive", i, j)
    /\ UNCHANGED notLogicalVars

LgTickReceiveSwitch(i, j) ==
    /\ lg[i].v < MaxCounter /\ lg[j].v < MaxCounter
    /\ lg' = [lg EXCEPT
                ![i] = Counter(LogicalTickReceiveSwitch(Alloc(lg[i]).v,
                                                        Alloc(lg[j]).v)),
                ![j] = Alloc(lg[j])]
    /\ lret' = Called("TickReceiveSwitch", i, j)
    /\ UNCHANGED notLogicalVars

\* on success the counter is the parsed value; on failure it is left as
\* it was, a nil counter included
LgSetString(i, value, base) ==
    /\ LET r == SetString(lg[i].v, value, base)
       IN  /\ lg' = [lg EXCEPT ![i] = IF r.succ THEN Counter(r.clk) ELSE @]
           /\ lret' = [Called("SetString", i, i) EXCEPT
                         !.value = value, !.succ = r.succ]
    /\ UNCHANGED notLogicalVars

\* what clk.Cmp(other) inside CmpOffset reads from other: the value of
\* clock j, which is the receiver with the offset added when other points
\* to the receiver itself
OtherInCmpOffset(i, offset, j) ==
    IF j = i THEN Alloc(lg[i]).v + offset ELSE Alloc(lg[j]).v

\* clock i calls CmpOffset(offset, other) with other pointing to clock j,
\* any clock, the receiver included
LgCmpOffset(i, offset, j) ==
    /\ lg' = [lg EXCEPT
                ![j] = Alloc(lg[j]),
                ![i] = Counter(AfterCmpOffset(Alloc(lg[i]).v, offset))]
    /\ lret' = [Called("CmpOffset", i, j) EXCEPT
                  !.offset = offset,
                  !.cmp = Cmp(Alloc(lg[i]).v + offset,
                              OtherInCmpOffset(i, offset, j))]
    /\ UNCHANGED notLogicalVars

NextLogical ==
    \/ \E i \in LgClocks : LgTick(i)
    \/ \E i \in LgClocks : \E j \in LgClocks \ {i} : LgSet(i, j)
    \/ \E i \in LgClocks : \E j \in LgClocks \ {i} : LgMax(i, j)
    \/ \E i \in LgClocks : \E j \in LgClocks \ {i} : LgTickReceive(i, j)
    \/ \E i \in LgClocks : \E j \in LgClocks \ {i} : LgTickReceiveSwitch(i, j)
    \/ \E i \in LgClocks, value \in Literals, base \in LiteralBases :
          LgSetString(i, value, base)
    \/ \E i \in LgClocks, offset \in (0 - MaxOffset)..MaxOffset :
          \E j \in LgClocks : LgCmpOffset(i, offset, j)

----------------------------------------------------------------------------
(* The Timestamp codec: a clock is encoded with Timestamp(base) and the    *)
(* timestamp decoded with ClockBase(base).                                 *)

\* the largest first component of the clocks encoded
MaxValue == 70

\* the admissible bases
Bases == 2..MaxBase

\* initialised clocks of every length and id, with components v, v+1, ...
CodecClocks ==
    UNION { { [id |-> i, vector |-> [j \in 1..l |-> v + j - 1]] :
                i \in 1..l, v \in 0..MaxValue } : l \in 1..MaxLen }

notCodecVars ==
    <<rcpVars, srvVars, clockVars, logicalVars, eventVars, mainVars>>

Encode ==
    /\ cd.stage = "clock"
    /\ cd' = [cd EXCEPT !.stage = "encoded", !.ts = Timestamp(cd.c, cd.base)]
    /\ UNCHANGED notCodecVars

Decode ==
    /\ cd.stage = "encoded"
    /\ LET r == ClockBase(cd.ts, cd.base)
       IN  cd' = [cd EXCEPT !.stage = "decoded", !.dec = r.clk, !.err = r.err]
    /\ UNCHANGED notCodecVars

NextCodec == Encode \/ Decode

----------------------------------------------------------------------------
(* The controller dialogue: serveMaster accepts one controller connection  *)
(* at a time and handleMaster serves its commands until it is closed.      *)

\* number of controller connections a peer accepts in a run
MaxConns == 2
\* number of unrecognised commands a controller sends on one connection
MaxUnknown == 1
\* the time after which the dialogues are not followed further
MaxDialogueTime == 200

\* a peer whose serveMaster waits in ln.Accept for the first time
NoConn == [open |-> FALSE, n |-> 0, errors |-> 0, since |-> 0]

\* a peer whose handleMaster serves its first connection
FirstConn == [open |-> TRUE, n |-> 1, errors |-> 0, since |-> 0]

\* the peer whose controller dialogue is followed in a run: the one of the
\* least id; the controllers of the others stay connected and command
\* broadcasts only
Observed == CHOOSE p \in Peers : \A q \in Peers : p <= q

\* a serveMaster that accepts one connection and no more
AcceptingOnce(conn) == ~conn.open /\ conn.n = 0

\* serveMaster is in ln.Accept whenever handleMaster is not running
Accepting(conn) == ~conn.open

\* an unrecognised command that ends the dialogue
AfterUnknownReturns(conn) ==
    [conn EXCEPT !.errors = @ + 1, !.open = FALSE]

\* the default case for a command without the prefix "broadcast ": the
\* error is logged and the loop continues
AfterUnknown(conn) == [conn EXCEPT !.errors = @ + 1]

\* the Content fields the "get" case writes, separated by commas
Contents(log) == [k \in 1..Len(log) |-> log[k].Content]

notDlgVars ==
    <<rcpVars, clockVars, logicalVars, codecVars, eventVars, bcVars, msgrVars,
      thVars>>

\* a controller connects and serveMaster accepts the connection
Connect(p) ==
    /\ Accepting(mconn[p])
    /\ mconn[p].n < MaxConns
    /\ mconn' = [mconn EXCEPT ![p] = [open |-> TRUE, n |-> @.n + 1,
                                      errors |-> 0, since |-> now]]
    /\ UNCHANGED <<srvVars, notDlgVars>>

\* the connection is closed: ReadString fails and handleMaster returns
Disconnect(p) ==
    /\ mconn[p].open
    /\ master[p].pc = "read"
    /\ mconn' = [mconn EXCEPT ![p].open = FALSE]
    /\ UNCHANGED <<srvVars, notDlgVars>>

\* handleMaster reads "get" and writes the response
GetCmd(p) ==
    /\ mconn[p].open
    /\ master[p].pc = "read"
    /\ resp' = [cmd |-> "get", peer |-> p, ids |-> << >>,
                msgs |-> Contents(MessagesFIFO[p]),
                conn |-> mconn[p].n, errors |-> mconn[p].errors]
    /\ UNCHANGED <<now, MessagesFIFO, LastTimestamp, inbox, master, beats,
                   nextBeat, broadcasts, lost, mconn, notDlgVars>>

\* handleMaster reads a command that is none of "get", "alive" and
\* "broadcast ..."
UnknownCmd(p) ==
    /\ mconn[p].open
    /\ master[p].pc = "read"
    /\ mconn[p].errors < MaxUnknown
    /\ mconn' = [mconn EXCEPT ![p] = AfterUnknown(@)]
    /\ UNCHANGED <<srvVars, notDlgVars>>

\* the commands "alive" and "broadcast ..." on an open connection
ConnAliveCmd(p) == mconn[p].open /\ AliveCmd(p)

ConnBroadcastCmd(p, text) == mconn[p].open /\ BroadcastCmd(p, text)

----------------------------------------------------------------------------
(* One execution of broadcast on its own, statement by statement: a peer   *)
(* ID of n peers sends a message while the dials to some ids fail.         *)

\* the largest number of peers of the system the broadcast runs in
MaxPeers == 3

\* a loop that a failed Dial ends
AfterDialReturns(to, ok, n) == IF ok THEN to + 1 ELSE n

\* the loop variable after the iteration that dialled id to: "continue"
\* after a failed Dial and the end of the body both reach id++
AfterDial(to, ok, n) == to + 1

NoBroadcast ==
    [n |-> 1, ID |-> 0, fails |-> {}, msg |-> NoMessage, pc |-> "done",
     id |-> 0, log |-> << >>, tried |-> << >>, sent |-> << >>]

\* the executions of broadcast: every number of peers, every peer of them,
\* a heartbeat or a message with content, every set of ids whose Dial fails
Broadcasts ==
    LET of(n, ID) ==
            { [NoBroadcast EXCEPT !.n = n, !.ID = ID, !.fails = f,
                                  !.msg = [Id |-> ID, Rts |-> 0, Content |-> c],
                                  !.pc = "head"] :
                c \in {"", "A"}, f \in SUBSET ((0..n) \ {ID}) }
    IN  UNION { UNION { of(n, ID) : ID \in 0..(n - 1) } : n \in 1..MaxPeers }

notBcVars ==
    <<rcpVars, srvVars, clockVars, logicalVars, codecVars, eventVars,
      dlgVars, msgrVars, thVars>>

\* json.Marshal of the message and the self copy
BcHead ==
    /\ bc.pc = "head"
    /\ bc' = [bc EXCEPT !.log = SelfCopy(@, bc.msg), !.pc = "loop", !.id = 0]
    /\ UNCHANGED notBcVars

\* one iteration of the loop: skip the own id, Dial, and write the line when
\* the Dial succeeded
BcIteration ==
    /\ bc.pc = "loop"
    /\ bc.id < bc.n
    /\ LET to == DialTarget(bc.ID, bc.id)
           ok == to \notin bc.fails
       IN  bc' = [bc EXCEPT !.tried = Append(@, to),
                            !.sent = IF ok THEN Append(@, to) ELSE @,
                            !.id = AfterDial(to, ok, bc.n)]
    /\ UNCHANGED notBcVars

\* the loop condition fails and broadcast returns
BcReturn ==
    /\ bc.pc = "loop"
    /\ ~(bc.id < bc.n)
    /\ bc' = [bc EXCEPT !.pc = "done"]
    /\ UNCHANGED notBcVars

NextBroadcast == BcHead \/ BcIteration \/ BcReturn

----------------------------------------------------------------------------
(* The receive path of src/server/server.go: fetchMessages starts           *)
(* "go handleMessenger(conn)" for every connection it accepts and goes back *)
(* to Accept; a handler reads and parses the line, updates LastTimestamp    *)
(* under its mutex and appends to MessagesFIFO under its mutex.             *)

\* fetchMessages is in Accept again as soon as the go statement has started
\* the handler, whatever handlers are in progress
AcceptReady(active) == TRUE

\* number of connections a listener is given in a run before heartbeats stop
MaxAccepted == 2

NoHandlers == [p \in Peers |-> {}]

NoAccepted == [p \in Peers |-> << >>]

notMsgrVars ==
    <<rcpVars, clockVars, logicalVars, codecVars, eventVars, bcVars, dlgVars,
      thVars>>

\* ln.Accept returns the oldest connection and "go handleMessenger(conn)"
AcceptConn(p) ==
    /\ inbox[p] # << >>
    /\ AcceptReady(handlers[p])
    /\ handlers' = [handlers EXCEPT ![p] =
                      @ \cup {[n |-> Len(accepted[p]) + 1, pc |-> "read",
                               bytes |-> inbox[p][1], msg |-> NoMessage]}]
    /\ accepted' = [accepted EXCEPT ![p] = Append(@, Unmarshal(inbox[p][1]))]
    /\ inbox' = [inbox EXCEPT ![p] = Tail(@)]
    /\ UNCHANGED <<now, MessagesFIFO, LastTimestamp, master, beats, nextBeat,
                   resp, broadcasts, lost, notMsgrVars>>

\* handleMessenger: ReadBytes and json.Unmarshal
MessengerRead(p, h) ==
    /\ h \in handlers[p]
    /\ h.pc = "read"
    /\ handlers' = [handlers EXCEPT ![p] =
                      (@ \ {h}) \cup {[h EXCEPT !.pc = "stamp",
                                                !.msg = Unmarshal(h.bytes)]}]
    /\ UNCHANGED <<srvVars, accepted, notMsgrVars>>

\* handleMessenger: the update of LastTimestamp, and the return for an
\* empty message
MessengerStamp(p, h) ==
    /\ h \in handlers[p]
    /\ h.pc = "stamp"
    /\ LastTimestamp' =
         [LastTimestamp EXCEPT ![p] = UpdateLastTimestamp(@, h.msg)]
    /\ handlers' = [handlers EXCEPT ![p] =
                      (@ \ {h}) \cup (IF h.msg.Content = "" THEN {}
                                      ELSE {[h EXCEPT !.pc = "log"]})]
    /\ UNCHANGED <<now, MessagesFIFO, inbox, master, beats, nextBeat, resp,
                   broadcasts, lost, accepted, notMsgrVars>>

\* handleMessenger: the append to MessagesFIFO, and the return
MessengerLog(p, h) ==
    /\ h \in handlers[p]
    /\ h.pc = "log"
    /\ MessagesFIFO' = [MessagesFIFO EXCEPT ![p] = LogReceived(@, h.msg)]
    /\ handlers' = [handlers EXCEPT ![p] = @ \ {h}]
    /\ UNCHANGED <<now, LastTimestamp, inbox, master, beats, nextBeat, resp,
                   broadcasts, lost, accepted, notMsgrVars>>

\* heartbeat and broadcast at another peer q: an empty message of q is
\* written to a connection to the listener of p
BeatArrives(p, q) ==
    /\ q # p
    /\ Len(accepted[p]) + Len(inbox[p]) < MaxAccepted
    /\ inbox' = [inbox EXCEPT ![p] = Append(@, Marshal(emptyMessage(q, now)))]
    /\ UNCHANGED <<now, MessagesFIFO, LastTimestamp, master, beats, nextBeat,
                   resp, broadcasts, lost, msgrVars, notMsgrVars>>

\* commanded broadcasts and heartbeats reach the listeners, where every
\* connection gets a handler of its own
NextMessenger ==
    \/ \E p \in Peers, q \in Peers : BeatArrives(p, q)
    \/ \E p \in Peers, text \in {Texts[i] : i \in 1..Len(Texts)} :
           BroadcastCmd(p, text)
    \/ \E p \in Peers : MasterSend(p, TRUE)
    \/ \E p \in Peers : AcceptConn(p)
    \/ \E p \in Peers : \E h \in handlers[p] : MessengerRead(p, h)
    \/ \E p \in Peers : \E h \in handlers[p] : MessengerStamp(p, h)
    \/ \E p \in Peers : \E h \in handlers[p] : MessengerLog(p, h)

----------------------------------------------------------------------------
(* The goroutines of one peer of src/unnamed/part_003 statement by         *)
(* statement: the receiver (fetchMessages, handleMessage), the controller  *)
(* handler (handleMaster and the broadcast it calls) and a heartbeat       *)
(* broadcast, with the two mutexes they lock.  The peer is Observed; the   *)
(* other peers are the senders of the messages that arrive.  The steps     *)
(* interleave in every order; real time is not followed.                   *)

Threads == {"recv", "ctl", "beat"}

\* ids a message can carry that are no index of LastTimestamp.value
BadIds == {-1, NUM_PROCS}

NoThread ==
    [pc |-> "idle", msg |-> NoMessage, k |-> 0, n |-> 0, buf |-> << >>,
     t |-> 0, snap |-> << >>]

NoThreads ==
    [recv |-> [NoThread EXCEPT !.pc = "accept"],
     ctl  |-> [NoThread EXCEPT !.pc = "read"],
     beat |-> NoThread]

NoHolders == [F |-> "none", T |-> "none"]

\* a Lock that returns whether or not the mutex is held
FreeAlways(m, name) == TRUE

\* sync.Mutex.Lock returns when no goroutine holds the mutex
Free(m, name) == m[name] = "none"

\* a handleMessage that goes on to the log with LastTimestamp.mutex held
AfterStampWriteKeepsLock == "log.lock"

\* handleMessage after the assignment to LastTimestamp.value: the Unlock
AfterStampWrite == "stamp.unlock"

\* the process runs: no goroutine has panicked
Up == th.recv.pc # "panic"

\* what no goroutine of the peer changes
thFrame ==
    <<master, beats, lost, handlers, rcpVars, clockVars, logicalVars,
      codecVars, eventVars, bcVars, dlgVars>>

\* a peer, or anyone who can connect, sends a message carrying the id and
\* the content to the listener of the peer
ThArrives(id, c) ==
    /\ Up
    /\ Len(accepted[Observed]) + Len(inbox[Observed]) < MaxAccepted
    /\ inbox' = [inbox EXCEPT ![Observed] =
                   Append(@, Marshal([Id |-> id, Rts |-> now, Content |-> c]))]
    /\ UNCHANGED <<now, MessagesFIFO, LastTimestamp, nextBeat, resp,
                   broadcasts, accepted, th, mu, thFrame>>

\* fetchMessages: ln.Accept; handleMessage: ReadBytes and json.Unmarshal
RecvAccept ==
    /\ Up
    /\ th.recv.pc = "accept"
    /\ inbox[Observed] # << >>
    /\ th' = [th EXCEPT !.recv.pc = "stamp.lock",
                        !.recv.msg = Unmarshal(inbox[Observed][1])]
    /\ accepted' = [accepted EXCEPT ![Observed] =
                      Append(@, Unmarshal(inbox[Observed][1]))]
    /\ inbox' = [inbox EXCEPT ![Observed] = Tail(@)]
    /\ UNCHANGED <<now, MessagesFIFO, LastTimestamp, nextBeat, resp,
                   broadcasts, mu, thFrame>>

\* handleMessage: LastTimestamp.mutex.Lock()
RecvStampLock ==
    /\ Up
    /\ th.recv.pc = "stamp.lock"
    /\ Free(mu, "T")
    /\ mu' = [mu EXCEPT !.T = "recv"]
    /\ th' = [th EXCEPT !.recv.pc = "stamp.write"]
    /\ UNCHANGED <<now, MessagesFIFO, LastTimestamp, inbox, nextBeat, resp,
                   broadcasts, accepted, thFrame>>

\* handleMessage: LastTimestamp.value[msg.Id] = msg.Rts, which panics for
\* an index out of range and ends the process
RecvStampWrite ==
    /\ Up
    /\ th.recv.pc = "stamp.write"
    /\ IF th.recv.msg.Id \in Peers
       THEN /\ LastTimestamp' = [LastTimestamp EXCEPT ![Observed] =
                                   UpdateLastTimestamp(@, th.recv.msg)]
            /\ th' = [th EXCEPT !.recv.pc = AfterStampWrite]
       ELSE /\ LastTimestamp' = LastTimestamp
            /\ th' = [th EXCEPT !.recv.pc = "panic"]
    /\ UNCHANGED <<now, MessagesFIFO, inbox, nextBeat, resp, broadcasts,
                   accepted, mu, thFrame>>

\* handleMessage: LastTimestamp.mutex.Unlock() and the return for an
\* empty message
RecvStampUnlock ==
    /\ Up
    /\ th.recv.pc = "stamp.unlock"
    /\ mu' = [mu EXCEPT !.T = "none"]
    /\ th' = [th EXCEPT !.recv =
                IF th.recv.msg.Content = "" THEN NoThreads.recv
                ELSE [@ EXCEPT !.pc = "log.lock"]]
    /\ UNCHANGED <<now, MessagesFIFO, LastTimestamp, inbox, nextBeat, resp,
                   broadcasts, accepted, thFrame>>

\* handleMessage: MessagesFIFO.mutex.Lock()
RecvLogLock ==
    /\ Up
    /\ th.recv.pc = "log.lock"
    /\ Free(mu, "F")
    /\ mu' = [mu EXCEPT !.F = "recv"]
    /\ th' = [th EXCEPT !.recv.pc = "log.append"]
    /\ UNCHANGED <<now, MessagesFIFO, LastTimestamp, inbox, nextBeat, resp,
                   broadcasts, accepted, thFrame>>

\* handleMessage: the append to MessagesFIFO.value
RecvLogAppend ==
    /\ Up
    /\ th.recv.pc = "log.append"
    /\ MessagesFIFO' = [MessagesFIFO EXCEPT ![Observed] =
                          LogReceived(@, th.recv.msg)]
    /\ th' = [th EXCEPT !.recv.pc = "log.unlock"]
    /\ UNCHANGED <<now, LastTimestamp, inbox, nextBeat, resp, broadcasts,
                   accepted, mu, thFrame>>

\* handleMessage: MessagesFIFO.mutex.Unlock() and the return to Accept
RecvLogUnlock ==
    /\ Up
    /\ th.recv.pc = "log.unlock"
    /\ mu' = [mu EXCEPT !.F = "none"]
    /\ th' = [th EXCEPT !.recv = NoThreads.recv]
    /\ UNCHANGED <<now, MessagesFIFO, LastTimestamp, inbox, nextBeat, resp,
                   broadcasts, accepted, thFrame>>

\* handleMaster reads "get" or "alive"; "alive" takes time.Now() first
CtlRead(cmd) ==
    /\ Up
    /\ th.ctl.pc = "read"
    /\ th' = [th EXCEPT !.ctl.pc = IF cmd = "get" THEN "get.lock"
                                                  ELSE "alive.lock",
                        !.ctl.t = IF cmd = "get" THEN @ ELSE now]
    /\ UNCHANGED <<now, MessagesFIFO, LastTimestamp, inbox, nextBeat, resp,
                   broadcasts, accepted, mu, thFrame>>

\* "get": MessagesFIFO.mutex.Lock() and msgs := MessagesFIFO.value
GetLock ==
    /\ Up
    /\ th.ctl.pc = "get.lock"
    /\ Free(mu, "F")
    /\ mu' = [mu EXCEPT !.F = "ctl"]
    /\ th' = [th EXCEPT !.ctl.pc = "get.read",
                        !.ctl.n = Len(MessagesFIFO[Observed]),
                        !.ctl.k = 0,
                        !.ctl.buf = << >>]
    /\ UNCHANGED <<now, MessagesFIFO, LastTimestamp, inbox, nextBeat, resp,
                   broadcasts, accepted, thFrame>>

\* "get": one iteration of the loop over msgs
GetRead ==
    /\ Up
    /\ th.ctl.pc = "get.read"
    /\ th.ctl.k < th.ctl.n
    /\ th' = [th EXCEPT
                !.ctl.buf = Append(@, MessagesFIFO[Observed][th.ctl.k + 1].Content),
                !.ctl.k = @ + 1]
    /\ UNCHANGED <<now, MessagesFIFO, LastTimestamp, inbox, nextBeat, resp,
                   broadcasts, accepted, mu, thFrame>>

\* "get": MessagesFIFO.mutex.Unlock() and the Flush of the response
GetUnlock ==
    /\ Up
    /\ th.ctl.pc = "get.read"
    /\ th.ctl.k = th.ctl.n
    /\ mu' = [mu EXCEPT !.F = "none"]
    /\ resp' = [cmd |-> "get", peer |-> Observed, ids |-> << >>,
                msgs |-> th.ctl.buf]
    /\ th' = [th EXCEPT !.ctl = NoThreads.ctl]
    /\ UNCHANGED <<now, MessagesFIFO, LastTimestamp, inbox, nextBeat,
                   broadcasts, accepted, thFrame>>

\* "alive": LastTimestamp.mutex.Lock(); snap records the table at the Lock
AliveLock ==
    /\ Up
    /\ th.ctl.pc = "alive.lock"
    /\ Free(mu, "T")
    /\ mu' = [mu EXCEPT !.T = "ctl"]
    /\ th' = [th EXCEPT !.ctl.pc = "alive.read",
                        !.ctl.snap = LastTimestamp[Observed]]
    /\ UNCHANGED <<now, MessagesFIFO, LastTimestamp, inbox, nextBeat, resp,
                   broadcasts, accepted, thFrame>>

\* "alive": the two loops over stmps
AliveRead ==
    /\ Up
    /\ th.ctl.pc = "alive.read"
    /\ th' = [th EXCEPT
                !.ctl.buf = AliveIds(Observed, th.ctl.t, LastTimestamp[Observed]),
                !.ctl.pc = "alive.unlock"]
    /\ UNCHANGED <<now, MessagesFIFO, LastTimestamp, inbox, nextBeat, resp,
                   broadcasts, accepted, mu, thFrame>>

\* "alive": LastTimestamp.mutex.Unlock() and the Flush of the response
AliveUnlock ==
    /\ Up
    /\ th.ctl.pc = "alive.unlock"
    /\ mu' = [mu EXCEPT !.T = "none"]
    /\ resp' = [cmd |-> "alive", peer |-> Observed, ids |-> th.ctl.buf]
    /\ th' = [th EXCEPT !.ctl = NoThreads.ctl]
    /\ UNCHANGED <<now, MessagesFIFO, LastTimestamp, inbox, nextBeat,
                   broadcasts, accepted, thFrame>>

\* handleMaster reads "broadcast <text>" and calls broadcast(newMessage)
CtlBroadcast(text) ==
    /\ Up
    /\ th.ctl.pc = "read"
    /\ Len(broadcasts[Observed]) < MaxBroadcasts
    /\ text = Texts[Len(broadcasts[Observed]) + 1]
    /\ th' = [th EXCEPT !.ctl.pc = "bc.head",
                        !.ctl.msg = newMessage(Observed, text, now)]
    /\ broadcasts' = [broadcasts EXCEPT ![Observed] =
                        Append(@, newMessage(Observed, text, now))]
    /\ UNCHANGED <<now, MessagesFIFO, LastTimestamp, inbox, nextBeat, resp,
                   accepted, mu, thFrame>>

\* heartbeat: the Sleep ends, at any point of the interleaving, and
\* "go broadcast(emptyMessage())"
HbStart ==
    /\ Up
    /\ th.beat.pc = "idle"
    /\ th' = [th EXCEPT !.beat.pc = "bc.head",
                        !.beat.msg = emptyMessage(Observed, now)]
    /\ UNCHANGED <<now, MessagesFIFO, LastTimestamp, inbox, nextBeat, resp,
                   broadcasts, accepted, mu, thFrame>>

\* broadcast in goroutine t: json.Marshal and "if len(msg.Content) != 0"
ThBcHead(t) ==
    /\ Up
    /\ th[t].pc = "bc.head"
    /\ th' = [th EXCEPT ![t].pc =
                IF th[t].msg.Content # "" THEN "bc.lock" ELSE "bc.loop"]
    /\ UNCHANGED <<now, MessagesFIFO, LastTimestamp, inbox, nextBeat, resp,
                   broadcasts, accepted, mu, thFrame>>

\* broadcast: MessagesFIFO.mutex.Lock()
ThBcLock(t) ==
    /\ Up
    /\ th[t].pc = "bc.lock"
    /\ Free(mu, "F")
    /\ mu' = [mu EXCEPT !.F = t]
    /\ th' = [th EXCEPT ![t].pc = "bc.append"]
    /\ UNCHANGED <<now, MessagesFIFO, LastTimestamp, inbox, nextBeat, resp,
                   broadcasts, accepted, thFrame>>

\* broadcast: the self copy
ThBcAppend(t) ==
    /\ Up
    /\ th[t].pc = "bc.append"
    /\ MessagesFIFO' = [MessagesFIFO EXCEPT ![Observed] =
                          SelfCopy(@, th[t].msg)]
    /\ th' = [th EXCEPT ![t].pc = "bc.unlock"]
    /\ UNCHANGED <<now, LastTimestamp, inbox, nextBeat, resp, broadcasts,
                   accepted, mu, thFrame>>

\* broadcast: MessagesFIFO.mutex.Unlock()
ThBcUnlock(t) ==
    /\ Up
    /\ th[t].pc = "bc.unlock"
    /\ mu' = [mu EXCEPT !.F = "none"]
    /\ th' = [th EXCEPT ![t].pc = "bc.loop"]
    /\ UNCHANGED <<now, MessagesFIFO, LastTimestamp, inbox, nextBeat, resp,
                   broadcasts, accepted, thFrame>>

\* broadcast: the loop of dials and writes, which touches no variable of
\* this peer, and the return
ThBcLoop(t) ==
    /\ Up
    /\ th[t].pc = "bc.loop"
    /\ th' = [th EXCEPT ![t] = NoThreads[t]]
    /\ UNCHANGED <<now, MessagesFIFO, LastTimestamp, inbox, nextBeat, resp,
                   broadcasts, accepted, mu, thFrame>>

NextThreads ==
    \/ \E id \in (Peers \ {Observed}) \cup BadIds, c \in {"", "A"} :
           ThArrives(id, c)
    \/ RecvAccept
    \/ RecvStampLock
    \/ RecvStampWrite
    \/ RecvStampUnlock
    \/ RecvLogLock
    \/ RecvLogAppend
    \/ RecvLogUnlock
    \/ \E cmd \in {"get", "alive"} : CtlRead(cmd)
    \/ GetLock
    \/ GetRead
    \/ GetUnlock
    \/ AliveLock
    \/ AliveRead
    \/ AliveUnlock
    \/ \E text \in {Texts[i] : i \in 1..Len(Texts)} : CtlBroadcast(text)
    \/ HbStart
    \/ \E t \in {"ctl", "beat"} : ThBcHead(t)
    \/ \E t \in {"ctl", "beat"} : ThBcLock(t)
    \/ \E t \in {"ctl", "beat"} : ThBcAppend(t)
    \/ \E t \in {"ctl", "beat"} : ThBcUnlock(t)
    \/ \E t \in {"ctl", "beat"} : ThBcLoop(t)

----------------------------------------------------------------------------
(* The library variables before anything is done with them *)


InitClockVars == vc = NoClock /\ vret = NoVret

InitLogicalVars == lg = [i \in LgClocks |-> NilCounter] /\ lret = NoLret

InitCodecVars == cd = << >>

InitEventVars ==
    /\ eclk = [p \in EvProcs |-> Build(p, NumEvProcs)]
    /\ events = << >>
    /\ known = [p \in EvProcs |-> {}]

InitMainVars ==
    /\ bc = NoBroadcast
    /\ mconn = [p \in Peers |-> NoConn]
    /\ handlers = NoHandlers
    /\ accepted = NoAccepted
    /\ th = NoThreads
    /\ mu = NoHolders

InitLib ==
    /\ InitClockVars /\ InitLogicalVars /\ InitCodecVars /\ InitEventVars
    /\ InitMainVars

----------------------------------------------------------------------------
(* Specifications *)

Init == InitMonitor /\ InitServer /\ InitLib

\* the monitor scenario of package vector
Next == NextMonitor

Spec == Init /\ [][Next]_vars

\* the monitor receiving copies, and calling Deliverables() again and again
SpecCopies == Init /\ [][NextCopies]_vars /\ WF_vars(DeliverablesCall)

\* the chatroom servers broadcasting, receiving and heartbeating, every
\* send and receive taking less than one time step
NextChat ==
    \/ SettledTimePasses
    \/ \E p \in Peers : Heartbeat(p)
    \/ \E p \in Peers : \E b \in beats[p], ok \in BOOLEAN : BeatSend(p, b, ok)
    \/ \E p \in Peers, text \in {Texts[i] : i \in 1..Len(Texts)} : BroadcastCmd(p, text)
    \/ \E p \in Peers, ok \in BOOLEAN : MasterSend(p, ok)
    \/ \E p \in Peers : HandleMessage(p)

SpecChat == Init /\ [][NextChat]_vars

\* the chatroom servers heartbeating and answering "alive", sends and
\* receives delayed for any time
NextAlive ==
    \/ TimePasses
    \/ \E p \in Peers : Heartbeat(p)
    \/ \E p \in Peers : \E b \in beats[p], ok \in BOOLEAN : BeatSend(p, b, ok)
    \/ \E p \in Peers : HandleMessage(p)
    \/ \E p \in Peers : AliveCmd(p)

SpecAlive == Init /\ [][NextAlive]_vars

\* one vector clock, built with any length and id, under its operations
InitClock ==
    /\ InitMonitor /\ InitServer
    /\ vc \in {c \in OtherClocks : \A i \in 1..Length(c) : c.vector[i] = 0}
    /\ vret = NoVret
    /\ InitLogicalVars /\ InitCodecVars /\ InitEventVars /\ InitMainVars

SpecClock == InitClock /\ [][NextClock]_vars

\* two logical clocks, zero values at first
SpecLogical == Init /\ [][NextLogical]_vars

\* any initialised clock encoded and decoded in any admissible base
InitCodec ==
    /\ InitMonitor /\ InitServer
    /\ InitClockVars /\ InitLogicalVars /\ InitEventVars /\ InitMainVars
    /\ cd \in { [c |-> c, base |-> b, stage |-> "clock",
                  ts |-> Timestamp(NoClock, b), dec |-> NoClock,
                  err |-> "nil"] : c \in CodecClocks, b \in Bases }

SpecCodec == InitCodec /\ [][NextCodec]_vars

\* the chatroom servers with their controllers connecting, commanding and
\* disconnecting, every Dial to a peer succeeding
NextMaster ==
    \/ (now < MaxDialogueTime /\ SettledTimePasses)
    \/ \E p \in Peers : Heartbeat(p)
    \/ \E p \in Peers : \E b \in beats[p] : BeatSend(p, b, TRUE)
    \/ \E p \in Peers : MasterSend(p, TRUE)
    \/ \E p \in Peers : HandleMessage(p)
    \/ Connect(Observed)
    \/ Disconnect(Observed)
    \/ GetCmd(Observed)
    \/ UnknownCmd(Observed)
    \/ ConnAliveCmd(Observed)
    \/ \E p \in Peers, text \in {Texts[i] : i \in 1..Len(Texts)} :
          ConnBroadcastCmd(p, text)

InitMaster ==
    /\ InitMonitor /\ InitServer
    /\ InitClockVars /\ InitLogicalVars /\ InitCodecVars /\ InitEventVars
    /\ bc = NoBroadcast
    /\ mconn = [p \in Peers |-> IF p = Observed THEN NoConn ELSE FirstConn]
    /\ handlers = NoHandlers
    /\ accepted = NoAccepted
    /\ th = NoThreads
    /\ mu = NoHolders

SpecMaster == InitMaster /\ [][NextMaster]_vars

\* any execution of broadcast; the goroutine that runs it keeps running
InitBroadcast ==
    /\ InitMonitor /\ InitServer
    /\ InitClockVars /\ InitLogicalVars /\ InitCodecVars /\ InitEventVars
    /\ bc \in Broadcasts
    /\ mconn = [p \in Peers |-> NoConn]
    /\ handlers = NoHandlers
    /\ accepted = NoAccepted
    /\ th = NoThreads
    /\ mu = NoHolders

SpecBroadcast ==
    InitBroadcast /\ [][NextBroadcast]_vars /\ WF_vars(NextBroadcast)

\* the chatroom servers of src/server/server.go receiving
SpecMessenger == Init /\ [][NextMessenger]_vars

\* the goroutines of one chatroom server interleaved
SpecThreads == Init /\ [][NextThreads]_vars

\* processes following the tick convention
SpecEvents == Init /\ [][NextEvents]_vars

----------------------------------------------------------------------------
(* Properties of the receptacle, checked under Spec *)

\* the decoded timestamp of the message object ptr
ClockOf(ptr) == ClockBase(heap[ptr].Timestamp, MaxBase).clk

\* vector-clock order: a is componentwise at most b, and below it somewhere
HappensBefore(a, b) ==
    /\ Len(a.vector) = Len(b.vector)
    /\ \A i \in 1..Len(a.vector) : a.vector[i] <= b.vector[i]
    /\ \E i \in 1..Len(a.vector) : a.vector[i] < b.vector[i]

\* C1: of two released messages, one whose timestamp happens-before the
\* other's comes first in the concatenation of the Deliverables() results,
\* for every order of Receive and every iteration order of the pending set.
C1_CausalReleaseOrder ==
    \A i, j \in 1..Len(delivered) :
        HappensBefore(ClockOf(delivered[i]), ClockOf(delivered[j])) => i < j

\* two causally ordered messages were received in the opposite order
\* (pointers are allocated in Receive order) and both released
C1_Witness ==
    \E i, j \in 1..Len(delivered) :
        /\ i < j
        /\ delivered[i] > delivered[j]
        /\ HappensBefore(ClockOf(delivered[i]), ClockOf(delivered[j]))

\* a pending message whose sender component is below the counter
BelowCounter(ptr) ==
    received[ptr].vector[received[ptr].id] < counter[received[ptr].id]

\* C6: a Deliverables() call made while a pending message from s has
\* t.v[s] < counter[s] returns an error naming such a message and removes
\* it from received.
C6_DecreasingDetected ==
    [][ ((\E ptr \in DOMAIN received : BelowCounter(ptr)) /\ DeliverablesCall)
            => /\ ret'.err # "nil"
               /\ ret'.offender \in DOMAIN received
               /\ BelowCounter(ret'.offender)
               /\ ret'.offender \notin DOMAIN received' ]_vars

\* C7: Receive of a message object that is already pending returns an error
\* and leaves received (so Size()) and the counter as they were, the
\* message still pending.
C7_DuplicateRefused ==
    [][ \A ptr \in DOMAIN received :
            ReceiveAgain(ptr)
                => /\ ret'.err # "nil"
                   /\ received' = received
                   /\ counter' = counter
                   /\ ptr \in DOMAIN received' ]_vars

\* a pending object was passed again and refused
C7_Witness ==
    /\ ret.op = "Receive"
    /\ ret.err = "duplicate"
    /\ ret.msg \in DOMAIN received

\* the text s denotes the natural number v: its digits are the text of v,
\* after an optional sign that is "-" only for zero
DenotesNat(s, v) ==
    \/ s = Text(v, MaxBase)
    \/ s = << "+" >> \o Text(v, MaxBase)
    \/ v = 0 /\ s = << "-" >> \o Text(v, MaxBase)

\* the component texts that occur: those of the clock values below MaxBase
\* and the forged ones
ComponentTexts ==
    {Text(v, MaxBase) : v \in 0..(MaxBase - 1)} \cup ForgedStrings

\* the natural numbers each component text denotes (none, or one)
NatsDenoted ==
    [s \in ComponentTexts |-> {v \in 0..(MaxBase - 1) : DenotesNat(s, v)}]

IsNatText(s) == NatsDenoted[s] # {}

\* a timestamp Receive must refuse on a receptacle of length NumProcs
Malformed(ts) ==
    \/ Len(ts.Vector) # NumProcs
    \/ ~(ts.Id \in 1..Len(ts.Vector))
    \/ \E i \in 1..Len(ts.Vector) : ~IsNatText(ts.Vector[i])

\* the clock a well-formed timestamp denotes
Denoted(ts) ==
    [id |-> ts.Id,
     vector |-> [i \in 1..Len(ts.Vector) |->
                   CHOOSE v \in NatsDenoted[ts.Vector[i]] : TRUE]]

\* what C8 says of the call Receive(ptr) on rcp, ptr holding msg
ReceiveContract(rcp, ptr, msg) ==
    LET r == Receive(rcp, ptr, msg)
    IN  /\ r.rcp.counter = rcp.counter
        /\ Malformed(msg.Timestamp)
              => r.err # "nil" /\ r.rcp.received = rcp.received
        /\ ~Malformed(msg.Timestamp)
              => /\ r.rcp.received
                      = MapPut(rcp.received, ptr, Denoted(msg.Timestamp))
                 /\ ptr \notin DOMAIN rcp.received => r.err = "nil"

\* C8: Receive returns an error and leaves received and the counter
\* unchanged when the vector length differs from n, the id is outside
\* 1..length or a component is no non-negative integer; otherwise received
\* gains exactly the pair (m, decoded clock) and the counter is unchanged.
\* This holds of every call the monitor can make in the current state.
C8_ReceiveValidates ==
    /\ \A ts \in ForgedTimestamps \cup {m.Timestamp : m \in wire} :
          ReceiveContract(Rcp, Len(heap) + 1,
                          [Content |-> "m", Timestamp |-> ts])
    /\ \A ptr \in 1..Len(heap) : ReceiveContract(Rcp, ptr, heap[ptr])

\* a timestamp with a component that is no non-negative integer was
\* refused while another message was pending
C8_Witness ==
    /\ ret.op = "Receive"
    /\ ret.err = "parse"
    /\ DOMAIN received # {}

\* the sender components of the messages from process i released so far
ReleasedFrom(i) ==
    { ClockOf(delivered[k]).vector[i] :
        k \in { k \in 1..Len(delivered) : ClockOf(delivered[k]).id = i } }

C9_Mark ==
    /\ Len(counter) = NumProcs
    /\ \A i \in 1..NumProcs :
         /\ ReleasedFrom(i) = {} => counter[i] = 0
         /\ ReleasedFrom(i) # {} =>
              /\ counter[i] \in ReleasedFrom(i)
              /\ \A v \in ReleasedFrom(i) : v <= counter[i]

\* C9: the counter has length n, counter[i] is the highest sender component
\* among the messages from i released so far (0 if none), and no counter
\* component ever decreases.
C9_HighWaterMark ==
    /\ []C9_Mark
    /\ [][ \A i \in 1..NumProcs : counter'[i] >= counter[i] ]_vars

\* two messages of one process were released in turn
C9_Witness == \E i \in 1..NumProcs : counter[i] = 2 /\ Len(delivered) = 2

\* the state of the package's test before its third Deliverables() call:
\* counter [0 0], m1 = [1, 0] from p1 and m2 = [1, 1] from p2 pending
BothPending ==
    /\ counter = << 0, 0 >>
    /\ Cardinality(DOMAIN received) = 2
    /\ \E m1, m2 \in DOMAIN received :
         /\ received[m1] = [id |-> 1, vector |-> << 1, 0 >>]
         /\ received[m2] = [id |-> 2, vector |-> << 1, 1 >>]

\* C10: with m2 = [1,1] from p2 and m1 = [1,0] from p1 pending at counter
\* [0,0], Deliverables() returns exactly one message, m1 (m2, whose only
\* unmet prerequisite is m1, is left for the following call).
C10_OnePerCall ==
    [][ (BothPending /\ DeliverablesCall)
            => /\ Len(ret'.delivery) = 1
               /\ received[ret'.delivery[1]].id = 1 ]_vars

----------------------------------------------------------------------------
(* Properties of the servers, checked under SpecChat and SpecAlive *)

\* the non-empty messages of sender s in a log, in log order
NonEmptyFrom(log, s) ==
    LET mine(m) == m.Id = s /\ m.Content # ""
    IN  SelectSeq(log, mine)

IsPrefix(a, b) == Len(a) <= Len(b) /\ a = SubSeq(b, 1, Len(a))

\* no Dial of a non-empty message from s to r failed
NoneLost(s, r) ==
    \A l \in lost : ~(l.from = s /\ l.to = r /\ l.msg.Content # "")

\* C2: at every peer r the non-empty messages of sender s in r's log are a
\* prefix of the non-empty broadcasts s performed, when no connection from
\* s to r was lost (the broadcasts of s are serialised by handleMaster and
\* the listener hands out connections in the order established).
C2_FifoLog ==
    \A r, s \in Peers :
        NoneLost(s, r) =>
            IsPrefix(NonEmptyFrom(MessagesFIFO[r], s), broadcasts[s])

\* two broadcasts of one peer reached another peer's log
C2_Witness ==
    \E r, s \in Peers :
        r # s /\ Len(NonEmptyFrom(MessagesFIFO[r], s)) = 2

\* the response C3 describes for peer ID at time t: its own id and
\* every j with t - liveness[j] < ALIVE_INTERVAL, in ascending order
ExpectedAlive(ID, t, stmps) ==
    LET listed(i) == i - 1 = ID \/ t - stmps[i - 1] < ALIVE_INTERVAL
        sel == SelectSeq([i \in 1..NUM_PROCS |-> i], listed)
    IN  [k \in 1..Len(sel) |-> sel[k] - 1]

\* C3: the "alive" response of a peer lists its own id and each other
\* peer j iff now - liveness[j] < ALIVE_INTERVAL, the same window for
\* j below and above the peer's id, in ascending order.
C3_AliveWindow ==
    [][ \A p \in Peers :
            AliveCmd(p) => resp'.ids = ExpectedAlive(p, now, LastTimestamp[p])
      ]_vars

\* the ids listed in the last response
Listed == {resp.ids[k] : k \in 1..Len(resp.ids)}

\* exactly one heartbeat of j sent after the last one r received from j
\* failed to reach r
OneMissed(r, j) ==
    /\ LastTimestamp[r][j] # ZeroTime
    /\ Cardinality({ l \in lost : /\ l.from = j /\ l.to = r
                                  /\ l.msg.Content = ""
                                  /\ l.msg.Rts > LastTimestamp[r][j] }) = 1

\* C4 as claimed: when exactly one heartbeat of j is missed by r, an
\* "alive" response of r issued before the second heartbeat interval after
\* the last received heartbeat is over does not omit j.
C4_OneMissedTolerated ==
    [][ \A r, j \in Peers :
            ( /\ r # j
              /\ AliveCmd(r)
              /\ OneMissed(r, j)
              /\ now - LastTimestamp[r][j] < 2 * HEARTBEAT_INTERVAL )
                => \E k \in 1..Len(resp'.ids) : resp'.ids[k] = j ]_vars

\* C4 as amended: an "alive" response of r lists j when it is issued less
\* than HEARTBEAT_INTERVAL after the timestamp of the last heartbeat r
\* received from j, and omits j when it is issued ALIVE_INTERVAL or more
\* after it: one missed heartbeat does get j reported dead.
C4_AliveWithinInterval ==
    [][ \A r, j \in Peers :
            (r # j /\ AliveCmd(r))
                => /\ now - LastTimestamp[r][j] < HEARTBEAT_INTERVAL
                        => \E k \in 1..Len(resp'.ids) : resp'.ids[k] = j
                   /\ now - LastTimestamp[r][j] >= ALIVE_INTERVAL
                        => \A k \in 1..Len(resp'.ids) : resp'.ids[k] # j
      ]_vars

\* a heartbeat of j was missed by r, whose id is above j's, and r, asked
\* ALIVE_INTERVAL or more after the last heartbeat it received from j and
\* before two heartbeat intervals were over, answered without j
C4_Witness ==
    \E r, j \in Peers :
        /\ j < r
        /\ resp.cmd = "alive" /\ resp.peer = r /\ j \notin Listed
        /\ OneMissed(r, j)
        /\ now - LastTimestamp[r][j] >= ALIVE_INTERVAL
        /\ now - LastTimestamp[r][j] < 2 * HEARTBEAT_INTERVAL

\* C5: every entry of every peer's log has non-empty content: a heartbeat
\* is appended neither when received nor as the sender's self copy.
C5_NoHeartbeatLogged ==
    \A p \in Peers :
        \A k \in 1..Len(MessagesFIFO[p]) : MessagesFIFO[p][k].Content # ""

\* a peer has sent a heartbeat of its own and received one of another
\* peer, from which it has logged nothing
C5_Witness ==
    \E r, j \in Peers :
        /\ r # j
        /\ nextBeat[r] > HEARTBEAT_INTERVAL
        /\ beats[r] = {}
        /\ LastTimestamp[r][j] # ZeroTime
        /\ NonEmptyFrom(MessagesFIFO[r], j) = << >>

----------------------------------------------------------------------------
(* Properties of the vector clock, checked under SpecClock *)

\* the local component of a clock (0 when it is uninitialised)
LocalOf(c) == IF Length(c) = 0 THEN 0 ELSE c.vector[c.id]

Trues(bs) == Cardinality({k \in 1..Len(bs) : bs[k]})

\* the glossary's pairwise consistency of clocks a and b of equal length
Consistent(a, b) ==
    /\ a.vector[a.id] >= b.vector[a.id]
    /\ b.vector[b.id] >= a.vector[b.id]

\* C12: for the clock and any other clock of the same non-zero length and
\* a different id that is pairwise consistent with it, at most one of
\* a.LessThan(b), b.LessThan(a) and a.Concurrent(b) is true.
C12_AtMostOneOrder ==
    \A other \in OtherClocks :
        ( /\ Length(vc) > 0
          /\ Length(other) = Length(vc)
          /\ other.id # vc.id
          /\ Consistent(vc, other) )
            => Trues(<< LessThan(vc, other), LessThan(other, vc),
                        Concurrent(vc, other) >>) <= 1

\* the clocks a and b that TickReceive must refuse to merge
Unmergeable(a, b) ==
    \/ Length(a) = 0
    \/ Length(b) = 0
    \/ Length(a) # Length(b)
    \/ ~Consistent(a, b)

\* C15: TickReceive(other) returns an error and leaves the clock as it was
\* whenever the two clocks have different lengths, either has length 0, or
\* they are pairwise inconsistent.  This holds of every call that can be
\* made on the clock in the current state.
C15_TickReceiveRefuses ==
    \A other \in OtherClocks :
        Unmergeable(vc, other)
            => LET r == TickReceive(vc, other)
               IN  r.err # "nil" /\ r.clk = vc

\* a ticked clock refused a clock it is inconsistent with
C15_Witness ==
    /\ vret.op = "TickReceive"
    /\ vret.err = "inconsistent"
    /\ LocalOf(vc) >= 1

\* the larger of two numbers
Larger(x, y) == IF x >= y THEN x ELSE y

\* C16: a successful TickReceive(other) sets every component j # id to
\* max(v[j], other.v[j]) and leaves v[id] and the id unchanged; TickLocal
\* adds one to v[id] and leaves every other component unchanged.  This
\* holds of every call that can be made on the clock in the current state.
C16_TickFrames ==
    /\ \A other \in OtherClocks :
          LET r == TickReceive(vc, other)
          IN  r.err = "nil"
                => /\ r.clk.id = vc.id
                   /\ r.clk.vector =
                        [j \in 1..Length(vc) |->
                           IF j = vc.id THEN vc.vector[j]
                           ELSE Larger(vc.vector[j], other.vector[j])]
    /\ Length(vc) > 0
          => LET c == TickLocal(vc)
             IN  /\ c.id = vc.id
                 /\ c.vector =
                      [j \in 1..Length(vc) |->
                         IF j = vc.id THEN vc.vector[j] + 1
                         ELSE vc.vector[j]]

\* a clock that merged another clock was ticked to the largest value
C16_Witness ==
    /\ vret.op = "TickLocal"
    /\ LocalOf(vc) = MaxTick
    /\ \E j \in 1..Length(vc) : j # vc.id /\ vc.vector[j] >= 1

----------------------------------------------------------------------------
(* Properties of the comparisons on event timestamps, under SpecEvents *)

\* event e happens-before event f: e is in the causal past of f
Before(e, f) == e \in events[f].past

\* C13: for the timestamps a and b of any two events of an execution that
\* follows the tick convention, a.LessThan(b) is true if and only if a's
\* event happens-before b's event.
C13_LessThanDecidesBefore ==
    \A e, f \in 1..Len(events) :
        LessThan(events[e].stamp, events[f].stamp) <=> Before(e, f)

----------------------------------------------------------------------------
(* Properties of the Timestamp codec, checked under SpecCodec *)

\* C17: for every initialised clock c and every base b in 2..MaxBase,
\* ClockBase(b) of c.Timestamp(b) succeeds and yields a clock with the id
\* of c and components numerically equal to those of c.
C17_TimestampRoundTrip ==
    cd.stage = "decoded"
        => /\ cd.err = "nil"
           /\ cd.dec.id = cd.c.id
           /\ Len(cd.dec.vector) = Len(cd.c.vector)
           /\ \A j \in 1..Len(cd.c.vector) : cd.dec.vector[j] = cd.c.vector[j]

\* a clock with a component written with a capital digit and a component
\* of two digits went through the codec in the largest base
C17_Witness ==
    /\ cd.stage = "decoded"
    /\ cd.base = MaxBase
    /\ \E j \in 1..Len(cd.c.vector) :
         cd.c.vector[j] >= 36 /\ cd.c.vector[j] < MaxBase
    /\ \E j \in 1..Len(cd.c.vector) : cd.c.vector[j] >= MaxBase

----------------------------------------------------------------------------
(* Properties of package logical, checked under SpecLogical *)

\* C18: the value of a logical counter is >= 0 in every reachable state
\* under Tick, Set, Max, TickReceive, SetString and CmpOffset, and a
\* SetString of a negative or malformed literal returns failure and
\* leaves the clock as it was.
C18_CounterNatural ==
    /\ \A i \in LgClocks : lg[i].v >= 0
    /\ (lret.op = "SetString"
          /\ lret.value \in NegativeLiterals \cup MalformedLiterals)
         => ~lret.succ /\ lg[lret.self] = lret.before

\* a clock that holds a positive value refused a negative literal
C18_Witness ==
    /\ lret.op = "SetString"
    /\ lret.value \in NegativeLiterals
    /\ lret.before.v > 0
    /\ ~lret.succ

\* C19: TickReceive(other) sets the value to max(v, other) + 1, a counter
\* that is nil reading as zero, and leaves the value of other unchanged;
\* this holds of both variants of TickReceive.
C19_TickReceiveMaxPlusOne ==
    lret.op \in {"TickReceive", "TickReceiveSwitch"}
        => /\ lg[lret.self].v
                = Larger(lret.before.v, lret.otherBefore.v) + 1
           /\ lg[lret.other].v = lret.otherBefore.v

\* TickReceive on a clock whose counter is nil, from a larger clock
C19_Witness ==
    /\ lret.op = "TickReceive"
    /\ ~lret.before.set
    /\ lret.otherBefore.v > 0
    /\ lg[lret.self].v = lret.otherBefore.v + 1

----------------------------------------------------------------------------
(* Properties of broadcast, checked under SpecChat *)

\* the id the loop of a broadcast by peer p, its variable at id, should
\* dial next: the least id of another peer not below id
NextOther(p, id) ==
    CHOOSE j \in Peers \ {p} :
        j >= id /\ \A k \in Peers \ {p} : k >= id => j <= k

\* the loop variables of the broadcasts peer p is in: the controller's
\* and the heartbeats'
LoopsOf(p) ==
    (IF master[p].pc = "broadcast" THEN {master[p].id} ELSE {})
        \cup {b.id : b \in beats[p]}

\* C20: a broadcast by peer self attempts its sends to the ids of
\* {0..n-1} other than self, in ascending order and one each, and to no
\* other id: whenever its loop is about to dial, the id it dials is another
\* peer's, the least one not yet attempted.
C20_BroadcastTargets ==
    \A p \in Peers : \A id \in LoopsOf(p) :
        /\ DialTarget(p, id) \in Peers \ {p}
        /\ DialTarget(p, id) = NextOther(p, id)

----------------------------------------------------------------------------
(* Properties of one execution of broadcast, checked under SpecBroadcast *)

\* the ids of the peers other than the one that broadcasts
OtherPeers == (0..(bc.n - 1)) \ {bc.ID}

\* the ids in a sequence of ids
Ids(seq) == {seq[k] : k \in 1..Len(seq)}

\* C21: broadcast terminates after every peer has been attempted, whatever
\* the set of peers whose dial fails; the message has then been sent to
\* every other peer whose dial did not fail, those attempted after a failed
\* dial included, and the self copy is in the sender's log.
C21_BroadcastCompletes ==
    <>( /\ bc.pc = "done"
        /\ OtherPeers \subseteq Ids(bc.tried)
        /\ Ids(bc.sent) \cap OtherPeers = OtherPeers \ bc.fails
        /\ bc.log = SelfCopy(<< >>, bc.msg) )

\* a broadcast returned whose dial to one peer failed and that sent the
\* message to a peer attempted after it, the self copy in the log
C21_Witness ==
    /\ bc.pc = "done"
    /\ bc.msg.Content # ""
    /\ Len(bc.log) = 1
    /\ \E i \in 1..Len(bc.tried) : \E j \in 1..Len(bc.tried) :
         /\ i < j
         /\ bc.tried[i] \in OtherPeers \cap bc.fails
         /\ bc.tried[j] \in OtherPeers \cap Ids(bc.sent)

----------------------------------------------------------------------------
(* Equal, checked under SpecClock *)

\* C26: a.Equal(b) is true if and only if a and b have the same length and
\* every component of a is numerically equal to the corresponding
\* component of b, the ids ignored; two clocks of length 0 are equal and
\* clocks of different lengths are not.
C26_EqualDecides ==
    \A other \in OtherClocks :
        Equal(vc, other)
            <=> /\ Length(vc) = Length(other)
                /\ \A i \in 1..Length(vc) : vc.vector[i] = other.vector[i]

----------------------------------------------------------------------------
(* Executions of broadcast at one peer, checked under SpecChat *)

\* the number of executions of broadcast in progress at peer p: the
\* heartbeat broadcasts and the one the controller commanded
InBroadcast(p) ==
    Cardinality(beats[p]) + (IF master[p].pc = "broadcast" THEN 1 ELSE 0)

\* C30: at each peer no two executions of broadcast overlap in time,
\* heartbeat broadcasts and broadcasts commanded by the controller both
\* counted.
C30_BroadcastsDoNotOverlap ==
    \A p \in Peers : InBroadcast(p) <= 1

----------------------------------------------------------------------------
(* Properties of deliver, checked under Spec *)

\* the visits a call of Deliverables can make in the current state: the
\* state of the call when the loop reaches a pending message, under every
\* iteration order of the map
Visits ==
    UNION { { [st  |-> DeliverablesLoop(CallState(Rcp),
                                        SubSeq(order, 1, i - 1), 1),
               msg |-> order[i]] : i \in 1..Len(order) } :
            order \in IterationOrders(DOMAIN received) }

\* the release predicate of the timestamp t against the counter
Releasable(ctr, t) ==
    /\ ctr[t.id] + 1 = t.vector[t.id]
    /\ \A j \in 1..Len(ctr) : j # t.id => ctr[j] >= t.vector[j]

\* the visit released its message
Released(v) ==
    LET next == deliver(v.st, v.msg)
    IN  Len(next.delivery) = Len(v.st.delivery) + 1

\* C27: when Deliverables visits a pending message m with sender s and
\* timestamp t, it releases m if and only if counter[s] + 1 = t.v[s] and
\* counter[j] >= t.v[j] for every j # s, the counter being the one updated
\* by the releases made earlier in the same call.
C27_ReleasePredicate ==
    \A v \in Visits :
        v.msg \in DOMAIN v.st.received
            => (Released(v) <=> Releasable(v.st.counter, v.st.received[v.msg]))

\* a call released two messages of one sender, the second of them
\* releasable only by the counter the first release left
C27_Witness ==
    /\ ret.op = "Deliverables"
    /\ Len(ret.delivery) = 2
    /\ LET a == ClockOf(ret.delivery[1])
           b == ClockOf(ret.delivery[2])
       IN  a.id = b.id /\ b.vector[b.id] = a.vector[a.id] + 1

\* C28: releasing a message m from sender s with timestamp t sets
\* counter[s] to t.v[s], removes m from received and appends m to the
\* output, and changes nothing else; a pending message that is not released
\* stays in received with the counter unchanged.
C28_ReleaseFrame ==
    \A v \in Visits :
        v.msg \in DOMAIN v.st.received
            => LET next == deliver(v.st, v.msg)
                   t    == v.st.received[v.msg]
               IN  IF Released(v)
                   THEN next = [v.st EXCEPT
                                  !.counter[t.id] = t.vector[t.id],
                                  !.received = MapDelete(@, v.msg),
                                  !.delivery = Append(@, v.msg)]
                   ELSE next = v.st

\* a call released one of two pending messages and left the other
C28_Witness ==
    /\ ret.op = "Deliverables"
    /\ Len(ret.delivery) = 1
    /\ Cardinality(DOMAIN received) = 1
    /\ counter[ClockOf(ret.delivery[1]).id] >= 1

----------------------------------------------------------------------------
(* Properties of the controller dialogue, checked under SpecMaster *)

\* a response was written to the controller of peer p
Responds(p, cmd) == resp' # resp /\ resp'.peer = p /\ resp'.cmd = cmd

C23_UnknownCommandIgnored ==
    [][ \A p \in Peers :
          mconn'[p].errors = mconn[p].errors + 1
              => /\ UNCHANGED <<MessagesFIFO, LastTimestamp, inbox, lost,
                                beats, master, resp>>
                 /\ mconn'[p].open
                 /\ master'[p].pc = "read" ]_vars

\* "get" was answered on a connection after an unrecognised command on it
C23_Witness ==
    /\ resp.cmd = "get"
    /\ resp.errors >= 1
    /\ mconn[resp.peer].open
    /\ mconn[resp.peer].n = resp.conn

\* C24: the FIFO log of a peer is append-only: in every step of the receive
\* handler, a commanded broadcast, a heartbeat, "get" and "alive" the log
\* before the step is a prefix of the log after it; "get" leaves the log
\* unchanged and returns its contents in log order.
C24_LogAppendOnly ==
    [][ \A p \in Peers :
          /\ IsPrefix(MessagesFIFO[p], MessagesFIFO'[p])
          /\ Responds(p, "get")
               => /\ MessagesFIFO' = MessagesFIFO
                  /\ Len(resp'.msgs) = Len(MessagesFIFO[p])
                  /\ \A k \in 1..Len(MessagesFIFO[p]) :
                       resp'.msgs[k] = MessagesFIFO[p][k].Content ]_vars

\* "get" returned a log of a self copy and a received message
C24_Witness ==
    /\ resp.cmd = "get"
    /\ Len(resp.msgs) = 2
    /\ \E k \in 1..2 : MessagesFIFO[resp.peer][k].Id = resp.peer
    /\ \E k \in 1..2 : MessagesFIFO[resp.peer][k].Id # resp.peer

\* C25: a step in which a peer p receives the message of sender j with
\* stamp r sets liveness[j] of p to r, for a heartbeat as for a message
\* with content, and changes no other entry of p and no entry of another
\* peer; every other step (p's own commanded broadcasts, its heartbeats,
\* its sends, time passing) leaves the liveness table of p unchanged
C25_ReceiveSetsSenderStamp ==
    [][\A p \in Peers :
         IF Len(inbox'[p]) < Len(inbox[p])
         THEN LET msg == Unmarshal(inbox[p][1])
              IN  /\ LastTimestamp'[p][msg.Id] = msg.Rts
                  /\ \A j \in Peers \ {msg.Id} :
                       LastTimestamp'[p][j] = LastTimestamp[p][j]
                  /\ \A q \in Peers \ {p} :
                       LastTimestamp'[q] = LastTimestamp[q]
         ELSE LastTimestamp'[p] = LastTimestamp[p]]_vars

\* a peer that has broadcast holds, for another peer, the stamp of a
\* heartbeat received after a logged message of that peer, and still the
\* zero time for itself
C25_Witness ==
    \E p \in Peers : \E j \in Peers \ {p} :
        /\ LastTimestamp[p][j] >= HEARTBEAT_INTERVAL
        /\ \E k \in 1..Len(MessagesFIFO[p]) : MessagesFIFO[p][k].Id = j
        /\ \A k \in 1..Len(MessagesFIFO[p]) :
             MessagesFIFO[p][k].Id = j =>
                 MessagesFIFO[p][k].Rts < LastTimestamp[p][j]
        /\ broadcasts[p] # << >>
        /\ LastTimestamp[p][p] = ZeroTime

\* the messages with content among those of a sequence
WithContent(msgs) ==
    LET F[k \in 0..Len(msgs)] ==
            IF k = 0 THEN << >>
            ELSE IF msgs[k].Content = "" THEN F[k - 1]
                 ELSE Append(F[k - 1], msgs[k])
    IN  F[Len(msgs)]

\* the messages of other peers among those of the log of p
FromOthers(p, log) ==
    LET F[k \in 0..Len(log)] ==
            IF k = 0 THEN << >>
            ELSE IF log[k].Id = p THEN F[k - 1]
                 ELSE Append(F[k - 1], log[k])
    IN  F[Len(log)]

\* C29: at every peer at most one receive handler is in progress at any
\* time, and the received messages of the log are in the order in which
\* their connections were accepted
C29_OneHandlerAtATime ==
    \A p \in Peers :
        /\ Cardinality(handlers[p]) <= 1
        /\ IsPrefix(FromOthers(p, MessagesFIFO[p]), WithContent(accepted[p]))

\* the sign of an integer, as big.Int.Cmp reports it
Sign(x) == IF x < 0 THEN -1 ELSE IF x > 0 THEN 1 ELSE 0

\* C39: after clk.CmpOffset(d, other), with v and o the values of clk and
\* other before the call, the result is the sign of (v + d) - o and clk
\* holds v again
C39_CmpOffsetSign ==
    lret.op = "CmpOffset"
        => /\ lret.cmp = Sign((lret.before.v + lret.offset) - lret.otherBefore.v)
           /\ lg[lret.self].v = lret.before.v

\* the same for the calls whose argument is another clock than the receiver
CmpOffsetSignOfOthers ==
    (lret.op = "CmpOffset" /\ lret.other # lret.self)
        => /\ lret.cmp = Sign((lret.before.v + lret.offset) - lret.otherBefore.v)
           /\ lg[lret.self].v = lret.before.v
           /\ lg[lret.other].v = lret.otherBefore.v


----------------------------------------------------------------------------
(* Properties of successive Deliverables() calls *)

\* C34: when Deliverables() has returned without an error, no message
\* still in received satisfies the release predicate against the counter
\* the call left
C34_CallReleasesAll ==
    (ret.op = "Deliverables" /\ ret.err = "nil")
        => \A ptr \in DOMAIN received : ~Releasable(counter, received[ptr])


\* the monitor accepted an object holding message m
Accepted(m) == \E k \in 1..Len(heap) : heap[k] = m

\* every message sent that causally precedes the message of object ptr was
\* accepted by Receive
PredecessorsAccepted(ptr) ==
    \A m \in wire :
        HappensBefore(ClockBase(m.Timestamp, MaxBase).clk, ClockOf(ptr))
            => Accepted(m)

\* a Deliverables() call returned the object ptr
WasReturned(ptr) == \E k \in 1..Len(delivered) : delivered[k] = ptr

\* C35: a pending message all of whose causal predecessors were accepted
\* by Receive is returned by one of the following Deliverables() calls
C35_EventualRelease ==
    \A ptr \in 1..MaxCopies :
        (ptr \in DOMAIN received /\ PredecessorsAccepted(ptr))
            ~> WasReturned(ptr)

\* C36: over all Deliverables() calls no message object is returned
\* twice, and the sender components of the released messages of each sender
\* are 1, 2, 3, ... in release order, also when two message objects carry
\* the same timestamp
C36_ReleasedOnceInSequence ==
    /\ \A i, j \in 1..Len(delivered) : i # j => delivered[i] # delivered[j]
    /\ \A i \in 1..Len(delivered) :
         LET t == ClockOf(delivered[i])
         IN  t.vector[t.id] =
                 Cardinality({k \in 1..i : ClockOf(delivered[k]).id = t.id})

\* two messages of one sender were released while a second object with the
\* timestamp of the first is pending
C36_Witness ==
    \E i, j \in 1..Len(delivered) :
        /\ i < j
        /\ ClockOf(delivered[i]).id = ClockOf(delivered[j]).id
        /\ \E ptr \in DOMAIN received :
             ptr # delivered[i] /\ heap[ptr] = heap[delivered[i]]


----------------------------------------------------------------------------
(* Properties of the logs of sender and receivers, checked under SpecChat *)

\* the log holds the message
Holds(log, msg) == \E k \in 1..Len(log) : log[k] = msg

\* the log holds message a at an earlier position than message b
HoldsBefore(log, a, b) ==
    \E i, j \in 1..Len(log) : i < j /\ log[i] = a /\ log[j] = b

\* C31: a message of sender s with content that is in the log of a peer,
\* or on a connection to a peer, is in the log of s already; and of two
\* broadcasts commanded at s the earlier is before the later in the log of
\* s and in the log of every peer that holds both
C31_SelfCopyFirst ==
    \A s \in Peers :
        /\ \A p \in Peers : \A k \in 1..Len(MessagesFIFO[p]) :
             MessagesFIFO[p][k].Id = s
                 => Holds(MessagesFIFO[s], MessagesFIFO[p][k])
        /\ \A p \in Peers : \A k \in 1..Len(inbox[p]) :
             (inbox[p][k].id = s /\ inbox[p][k].msg # "")
                 => Holds(MessagesFIFO[s], Unmarshal(inbox[p][k]))
        /\ \A i, j \in 1..Len(broadcasts[s]) :
             i < j =>
                 /\ HoldsBefore(MessagesFIFO[s], broadcasts[s][i],
                                broadcasts[s][j])
                 /\ \A p \in Peers :
                      (/\ Holds(MessagesFIFO[p], broadcasts[s][i])
                       /\ Holds(MessagesFIFO[p], broadcasts[s][j]))
                          => HoldsBefore(MessagesFIFO[p], broadcasts[s][i],
                                         broadcasts[s][j])

\* two broadcasts of one peer are in its own log and in the log of another
\* peer
C31_Witness ==
    \E s \in Peers : \E p \in Peers \ {s} :
        /\ Len(broadcasts[s]) = 2
        /\ Holds(MessagesFIFO[p], broadcasts[s][1])
        /\ Holds(MessagesFIFO[p], broadcasts[s][2])
        /\ Holds(MessagesFIFO[s], broadcasts[s][2])


\* C37: at every receiver the liveness entry of every sender never moves
\* backwards, whatever the order in which the messages of the sender arrive
C37_LivenessMonotone ==
    [][\A p \in Peers : \A j \in Peers :
           LastTimestamp'[p][j] >= LastTimestamp[p][j]]_vars


----------------------------------------------------------------------------
(* Properties of the goroutines of one peer, checked under SpecThreads *)

\* C32: no goroutine holds MessagesFIFO.mutex and LastTimestamp.mutex at
\* the same time, in any interleaving of the receive handler, the
\* controller handler and the broadcasts
C32_MutexesNotNested ==
    \A t \in Threads : ~(mu.F = t /\ mu.T = t)

\* the receive handler holds the table mutex while the broadcast the
\* controller handler called holds the log mutex
C32_Witness ==
    /\ mu.T = "recv"
    /\ mu.F = "ctl"
    /\ th.ctl.pc = "bc.append"

\* the statements that read or write MessagesFIFO.value
LogAccess == {"get.read", "log.append", "bc.append"}

\* the statements that read or write LastTimestamp.value
TableAccess == {"stamp.write", "alive.read"}

\* C33: a goroutine about to read or write the log holds the log mutex and
\* one about to read or write the liveness table holds the table mutex;
\* while "get" gathers its response the log is the one it found at the
\* Lock, and the response of "alive" is computed from the table as it is
\* from the Lock to the Unlock
C33_AccessUnderMutex ==
    /\ \A t \in Threads :
         /\ th[t].pc \in LogAccess => mu.F = t
         /\ th[t].pc \in TableAccess => mu.T = t
    /\ th.ctl.pc = "get.read"
         => /\ th.ctl.n = Len(MessagesFIFO[Observed])
            /\ th.ctl.buf
                 = Contents(SubSeq(MessagesFIFO[Observed], 1, th.ctl.k))
    /\ th.ctl.pc \in {"alive.read", "alive.unlock"}
         => th.ctl.snap = LastTimestamp[Observed]
    /\ th.ctl.pc = "alive.unlock"
         => th.ctl.buf = AliveIds(Observed, th.ctl.t, th.ctl.snap)

\* "get" has read a message of the log while the receive handler waits
\* for the log mutex with the next one
C33_Witness ==
    /\ th.ctl.pc = "get.read"
    /\ th.ctl.k >= 1
    /\ th.recv.pc = "log.lock"

\* C38: a receive handler that decoded a message whose id is outside
\* 0..n-1 leaves the log and the liveness table as they are and returns,
\* and the listener accepts again
C38_BadIdSkipped ==
    [][(/\ th.recv.pc = "stamp.write"
        /\ th.recv.msg.Id \notin Peers
        /\ th'.recv # th.recv)
           => /\ th'.recv.pc = "accept"
              /\ UNCHANGED <<MessagesFIFO, LastTimestamp>>]_vars

====
